---- MODULE Spec2Model ----
(***************************************************************************)
(* TCG Radar: the periodic orchestrator (src/pipeline/scheduler.py), the   *)
(* cascade predicate (src/signals/cascade.py), the signal generator        *)
(* (src/signals/generator.py) and the parts they rest on, as state         *)
(* machines.                                                               *)
(*                                                                         *)
(* The specifications share the module and its variables; in each one the  *)
(* other subsystems are at rest:                                           *)
(*   Spec        the Scheduler.run loop with its poll jobs, the cadence    *)
(*               override map and the shutdown event;                      *)
(*   FairSpec    Spec plus weak fairness of the scheduler task's own steps *)
(*               (every awaited job returns: the HTTP clients carry        *)
(*               timeouts and bounded retries);                            *)
(*   CascadeSpec should_cascade applied to inputs drawn from bounded sets; *)
(*   ScanSpec    SignalGenerator.scan_for_signals / run_and_notify;        *)
(*   IoSpec      the database session and the upstream calls of one run of *)
(*               a poll job or of the scan, await by await;                *)
(*   RequestSpec the retry loop of the API clients' _request;              *)
(*   NotifierSpec the Telegram and Discord notifiers' send operations;     *)
(*   ScoreSpec   score_candidates (src/signals/rotation.py);               *)
(*   ProfitSpec  calculate_net_profit (src/engine/profit.py);              *)
(*   RotationSpec check_rotation_risk (src/engine/rotation.py);            *)
(*   ForexSpec   the EUR -> USD -> EUR round trip (src/utils/forex.py);    *)
(*   CogsSpec    get_current_forex_rate and the cost of goods of a scan;   *)
(*   ScrapeSpec  concurrent scrape_card calls on one ScraperRunner;        *)
(*   FetchSpec   the pagination loop of fetch_set_cards, and FetchFairSpec *)
(*               with every request answered and every await resumed.      *)
(*                                                                         *)
(* Scheduler time is counted in units of 30 minutes; cascade time in       *)
(* seconds; money in cents.                                                *)
(***************************************************************************)
EXTENDS Integers, Sequences, FiniteSets, TLC

VARIABLES
    \* ---- Scheduler (src/pipeline/scheduler.py) ----
    now,                  \* datetime.now(timezone.utc), in 30-minute units
    pc,                   \* position of the Scheduler.run coroutine
    justtcg_last_poll,
    pokemontcg_last_poll,
    poketrace_last_poll,
    ebay_last_poll,
    signal_last_scan,
    social_spikes,        \* card_id -> revert_time
    shutdown_event,
    signal_generator,     \* "None" or "SignalGenerator"
    entrypoint,           \* who constructed the scheduler
    ebay_app_id,          \* settings.EBAY_APP_ID is non-empty
    boosts,               \* history: number of BoostCard calls so far
    shutdown_at,          \* history: pc at which shutdown was requested
    shutdown_tick_done,   \* history: a tick ended with the event set
    last,                 \* history: the last operation and its result
    \* ---- should_cascade (src/signals/cascade.py) ----
    casc_pc,
    expires_at,
    acted_on,
    cascade_count,
    reference_time,
    casc_result,
    \* ---- SignalGenerator (src/signals/generator.py) ----
    scan_pc,
    prices,               \* rows returned by the MarketPrice query
    idx,                  \* index of the candidate in the for loop
    stage,                \* next stage of the current candidate
    stages_run,           \* history: stages evaluated for the current candidate
    rejected_at,          \* history: per candidate, the rejecting stage or 0
    signals,
    filter_counts,
    user_profiles,
    uidx,
    delivered,            \* history: user -> card ids sent in this run
    days_until_g,         \* days from date.today() to the rotation of mark G
    max_signals,          \* getattr(settings, "MAX_SIGNALS_PER_SCAN", 50),
                          \* read after the loop (0 before)
    notify_log,           \* history: per user of the loop, what was handed
                          \* to the notifier and how the iteration ended
    last_stage,           \* history: the last stage evaluation
    \* ---- database session and upstream calls of one job run ----
    io_job,               \* the job that is running
    io_pc,                \* position of the job
    io_items,             \* the list the job loops over (set codes, card ids)
    io_idx,               \* position of the loop in io_items
    io_batch,             \* fetched records not stored yet
    tx_open,              \* the session has a transaction begun
    http_in_flight,       \* an upstream request is awaiting its response
    tx_upserts,           \* (card_id, source) -> upserts of the open transaction
    tx_history,           \* (card_id, source) -> price_history rows of it
    market_upserts,       \* history: committed market_prices upserts
    price_history,        \* committed price_history rows
    forex_key,            \* settings.EXCHANGERATE_API_KEY is non-empty
    forex_fresh,          \* _forex_cache is younger than the TTL
    \* ---- _request of the API clients ----
    req_client,
    req_pc,
    attempt,              \* the loop variable of _request
    responses,            \* history: outcome of every attempt so far
    slept,                \* history: the wait_time of every backoff sleep
    \* ---- TelegramNotifier / DiscordNotifier ----
    ntf_channel,          \* "telegram" or "discord"
    ntf_op,               \* the operation that was called
    ntf_enabled,          \* self._enabled
    ntf_signals,          \* the signals argument
    ntf_idx,              \* enumerate index of send_batch_signals
    ntf_delivered,        \* `delivered` of send_batch_signals
    ntf_pc,               \* "running", "returned" or "raised"
    ntf_ok,               \* the bool returned by send_signal / send_daily_digest
    \* ---- score_candidates (src/signals/rotation.py) ----
    sc_pc,
    sc_candidates,        \* the candidates argument
    sc_result,            \* the returned order, as positions of sc_candidates
    \* ---- calculate_net_profit (src/engine/profit.py) ----
    pf_pc,
    pf_cm_price_eur,      \* cents
    pf_tcg_price_usd,     \* cents
    pf_condition,
    pf_result,            \* the returned breakdown
    \* check_rotation_risk on one card
    rr_pc,
    rr_mark,              \* regulation mark
    rr_days,              \* days from the reference date to the rotation date
    rr_level,             \* the returned risk_level
    \* one EUR -> USD -> EUR round trip
    fx_pc,
    fx_amount_eur,        \* cents
    fx_rate,              \* spot EUR/USD rate, hundredths
    fx_buffer,            \* percent
    fx_usd,               \* cents
    fx_back,              \* cents
    \* the forex rate and cost of goods of a scan's candidates
    cg_pc,
    cg_key,               \* EXCHANGERATE_API_KEY is set
    cg_calls,             \* candidates priced so far
    cg_cache_rate,        \* _forex_cache["rate"], 0 when empty
    cg_cache_spot,        \* the spot rate the cached rate was made from
    cg_rate,              \* the rate get_current_forex_rate returned
    cg_spot,              \* the spot rate it was made from
    cg_source,            \* static, live, cache or fallback
    cg_amount,            \* cm_price_eur, cents
    cg_cogs,              \* cogs_usd, cents
    \* concurrent scrape_card calls on one ScraperRunner
    sr_pc,                \* position of each call
    sr_pages_this_hour,   \* AntiDetect._pages_this_hour
    sr_hour_elapsed,      \* now - _hour_start is 3600 seconds or more
    \* one fetch_set_cards call
    fs_pc,
    fs_page,              \* page
    fs_all_cards,         \* len(all_cards)
    fs_count,             \* len(response.data) of the last page
    fs_totalCount         \* response.totalCount of the last page

schedVars == <<now, pc, justtcg_last_poll, pokemontcg_last_poll,
               poketrace_last_poll, ebay_last_poll, signal_last_scan,
               social_spikes, shutdown_event, signal_generator, entrypoint,
               ebay_app_id, boosts, shutdown_at, shutdown_tick_done, last>>
cascVars == <<casc_pc, expires_at, acted_on, cascade_count, reference_time,
              casc_result>>
scanVars == <<scan_pc, prices, idx, stage, stages_run, rejected_at, signals,
              filter_counts, user_profiles, uidx, delivered, days_until_g,
              max_signals, notify_log, last_stage>>
ioVars == <<io_job, io_pc, io_items, io_idx, io_batch, tx_open, http_in_flight,
            tx_upserts, tx_history, market_upserts, price_history, forex_key,
            forex_fresh>>
reqVars == <<req_client, req_pc, attempt, responses, slept>>
ntfVars == <<ntf_channel, ntf_op, ntf_enabled, ntf_signals, ntf_idx,
             ntf_delivered, ntf_pc, ntf_ok>>
scVars == <<sc_pc, sc_candidates, sc_result>>
pfVars == <<pf_pc, pf_cm_price_eur, pf_tcg_price_usd, pf_condition, pf_result>>
rrVars == <<rr_pc, rr_mark, rr_days, rr_level>>
fxVars == <<fx_pc, fx_amount_eur, fx_rate, fx_buffer, fx_usd, fx_back>>
cgVars == <<cg_pc, cg_key, cg_calls, cg_cache_rate, cg_cache_spot, cg_rate,
            cg_spot, cg_source, cg_amount, cg_cogs>>
srVars == <<sr_pc, sr_pages_this_hour, sr_hour_elapsed>>
fsVars == <<fs_pc, fs_page, fs_all_cards, fs_count, fs_totalCount>>
baseVars == <<schedVars, cascVars, scanVars, ioVars, reqVars>>
extVars == <<ntfVars, scVars, pfVars, rrVars, fxVars, cgVars, srVars, fsVars>>
ntfOthers == <<scVars, pfVars, rrVars, fxVars, cgVars, srVars, fsVars>>
scOthers == <<ntfVars, pfVars, rrVars, fxVars, cgVars, srVars, fsVars>>
pfOthers == <<ntfVars, scVars, rrVars, fxVars, cgVars, srVars, fsVars>>
rrOthers == <<ntfVars, scVars, pfVars, fxVars, cgVars, srVars, fsVars>>
fxOthers == <<ntfVars, scVars, pfVars, rrVars, cgVars, srVars, fsVars>>
cgOthers == <<ntfVars, scVars, pfVars, rrVars, fxVars, srVars, fsVars>>
srOthers == <<ntfVars, scVars, pfVars, rrVars, fxVars, cgVars, fsVars>>
fsOthers == <<ntfVars, scVars, pfVars, rrVars, fxVars, cgVars, srVars>>
vars == <<baseVars, extVars>>

Min(a, b) == IF a <= b THEN a ELSE b

(***************************************************************************)
(* Bounds of the model.                                                    *)
(***************************************************************************)
MaxTime == 4
MaxExpires == 2
MaxRefTime == 14
MaxCascadeCount == 6
MaxPrices == 2
MaxBoosts == 2

(***************************************************************************)
(* should_cascade, src/signals/cascade.py                                  *)
(***************************************************************************)
CASCADE_COOLDOWN_SECONDS == 10
CASCADE_MAX_LIMIT == 5

compute_cascade_available_at(exp) == exp + CASCADE_COOLDOWN_SECONDS

CooldownPending_le(t, available_at) == t <= available_at

CooldownPending(t, available_at) == t < available_at

LimitReached(count, max_limit) == count >= max_limit

should_cascade(exp, acted, count, t) ==
    IF acted THEN FALSE
    ELSE IF LimitReached(count, CASCADE_MAX_LIMIT) THEN FALSE
    ELSE IF CooldownPending(t, compute_cascade_available_at(exp)) THEN FALSE
    ELSE TRUE

CascIdle ==
    /\ casc_pc = "idle" /\ expires_at = 0 /\ acted_on = FALSE
    /\ cascade_count = 0 /\ reference_time = 0 /\ casc_result = FALSE

CascadeInit0 ==
    /\ casc_pc = "call"
    /\ expires_at \in 0..MaxExpires
    /\ acted_on \in BOOLEAN
    /\ cascade_count \in 0..MaxCascadeCount
    /\ reference_time \in 0..MaxRefTime
    /\ casc_result = FALSE

ShouldCascade ==
    /\ casc_pc = "call"
    /\ casc_result' = should_cascade(expires_at, acted_on, cascade_count,
                                     reference_time)
    /\ casc_pc' = "done"
    /\ UNCHANGED <<expires_at, acted_on, cascade_count, reference_time>>
    /\ UNCHANGED <<schedVars, scanVars, ioVars, reqVars, extVars>>

(***************************************************************************)
(* The rules engine stages, src/engine/*.py, in cents and scaled integers: *)
(* money in cents, seller rating in tenths of a percent, velocity and the  *)
(* daily price trend in hundredths.                                        *)
(***************************************************************************)
\* None of a numeric column and None of a string column
Null == 0 - 1
None == "None"

\* Decimal.quantize(Decimal("0.01"), ROUND_HALF_UP) of n / d, for n, d >= 0
RoundHalfUp(n, d) == (2 * n + d) \div (2 * d)

\* src/engine/variant_check.py
validate_variant(tcgplayer_id, cardmarket_id) ==
    IF tcgplayer_id = "" \/ cardmarket_id = "" THEN "VARIANT_MISMATCH"
    ELSE IF tcgplayer_id # cardmarket_id THEN "VARIANT_MISMATCH"
    ELSE "MATCH"

\* src/engine/seller_quality.py
MIN_SELLER_RATING == 970
MIN_SELLER_SALES == 100
check_seller_quality(rating, sale_count) ==
    ~(rating < MIN_SELLER_RATING \/ sale_count < MIN_SELLER_SALES)

\* src/utils/condition_map.py
CardmarketGrade == {"MT", "NM", "EXC", "GD", "LP", "PL", "PO"}
\* str.strip().upper() on the condition strings the model uses
StripUpper(str) ==
    CASE str = "nm" -> "NM"
      [] str = " exc" -> "EXC"
      [] OTHER -> str
\* price_multiplier in percent; 0 stands for the ValueError raised for PO
price_multiplier(grade) ==
    CASE grade \in {"MT", "NM"} -> 100
      [] grade = "EXC" -> 85
      [] grade \in {"GD", "LP"} -> 75
      [] grade = "PL" -> 60
      [] OTHER -> 0
map_condition_raises(grade) == grade = "PO"

\* src/utils/forex.py
DEFAULT_FOREX_BUFFER == 2
EUR_USD_RATE == 108
\* rate in hundredths, buffer in percent: amount * rate * (1 + buffer)
convert_eur_to_usd(amount_eur, rate, buffer) ==
    RoundHalfUp(amount_eur * rate * (100 + buffer), 10000)
\* no EXCHANGERATE_API_KEY configured: the static rate
get_current_forex_rate == EUR_USD_RATE

\* src/engine/profit.py, customs regime pre_july_2026 (the default)
TCGPLAYER_FEE_RATE == 1075
US_DE_MINIMIS_USD == 80000
US_CUSTOMS_STANDARD_RATE == 25
SHIPPING_COST_USD == 1500
calculate_customs(cogs_usd) ==
    IF cogs_usd < US_DE_MINIMIS_USD THEN 0
    ELSE RoundHalfUp(cogs_usd * US_CUSTOMS_STANDARD_RATE, 1000)
calculate_net_profit(cm_price_eur, tcg_price_usd, forex_rate, condition) ==
    LET cogs_usd == convert_eur_to_usd(cm_price_eur, forex_rate,
                                       DEFAULT_FOREX_BUFFER)
        adjusted_tcg_price ==
            RoundHalfUp(tcg_price_usd * price_multiplier(condition), 100)
        tcg_fees == RoundHalfUp(adjusted_tcg_price * TCGPLAYER_FEE_RATE, 10000)
        customs == calculate_customs(cogs_usd)
        shipping == SHIPPING_COST_USD
        revenue == adjusted_tcg_price - tcg_fees
        total_costs == cogs_usd + customs + shipping
    IN [net_profit |-> revenue - total_costs, revenue |-> revenue,
        cogs_usd |-> cogs_usd, tcg_fees |-> tcg_fees, customs |-> customs,
        shipping |-> shipping]

\* src/engine/velocity.py and generator.py:145-154
VELOCITY_TIER_1_FLOOR == 150
velocity_score(sales_30d, active_listings) ==
    IF sales_30d # Null /\ active_listings # Null
       /\ sales_30d # 0 /\ active_listings > 0
    THEN RoundHalfUp(sales_30d * 100, active_listings)
    ELSE 100

\* src/engine/trend.py
FALLING_KNIFE_THRESHOLD == 0 - 10
trend_suppress(vel_score, price_trend_daily) ==
    vel_score >= VELOCITY_TIER_1_FLOOR
    /\ price_trend_daily <= FALLING_KNIFE_THRESHOLD

\* src/engine/rotation.py with settings.ROTATION_CALENDAR (G dated, H open)
check_rotation_risk_inclusive(regulation_mark, legality_standard, days_until_rotation) ==
    IF legality_standard = "Banned" THEN "ROTATED"
    ELSE IF regulation_mark = None THEN "UNKNOWN"
    ELSE IF regulation_mark \notin {"G", "H"} THEN "ROTATED"
    ELSE IF regulation_mark = "H" THEN "SAFE"
    ELSE IF days_until_rotation < 0 THEN "ROTATED"
    ELSE IF days_until_rotation >= 180 THEN "SAFE"
    ELSE IF days_until_rotation >= 90 THEN "WATCH"
    ELSE "DANGER"

check_rotation_risk(regulation_mark, legality_standard, days_until_rotation) ==
    IF legality_standard = "Banned" THEN "ROTATED"
    ELSE IF regulation_mark = None THEN "UNKNOWN"
    ELSE IF regulation_mark \notin {"G", "H"} THEN "ROTATED"
    ELSE IF regulation_mark = "H" THEN "SAFE"
    ELSE IF days_until_rotation < 0 THEN "ROTATED"
    ELSE IF days_until_rotation > 180 THEN "SAFE"
    ELSE IF days_until_rotation > 90 THEN "WATCH"
    ELSE "DANGER"

\* src/engine/bundle.py
SDS_SINGLE == 1
BUNDLE_SINGLE_CARD_THRESHOLD == 2500
bundle_suppress(seller_card_count, card_price_usd, net_profit) ==
    /\ seller_card_count = SDS_SINGLE
    /\ card_price_usd < BUNDLE_SINGLE_CARD_THRESHOLD
    /\ net_profit <= 0

(***************************************************************************)
(* SignalGenerator, src/signals/generator.py                               *)
(*                                                                         *)
(* A row is a MarketPrice row together with what the scan looks up for it: *)
(* the CardMetadata row (has_metadata, set by the query on the same        *)
(* card_id), the poketrace row and the 7-day trend of its price history.   *)
(***************************************************************************)
DEFAULT_MIN_PROFIT_THRESHOLD == 500
ENABLE_BUNDLE_LOGIC == TRUE
MAX_SIGNALS_PER_SCAN == 50

GoodRow ==
    [card_id |-> "sv1-25", has_metadata |-> TRUE,
     seller_rating |-> Null, seller_sales |-> Null, condition |-> None,
     price_eur |-> 4000, price_usd |-> 10000,
     sales_30d |-> Null, active_listings |-> Null, price_trend |-> 0,
     regulation_mark |-> "H", legality_standard |-> "Legal"]

\* rows that differ from GoodRow in the field one stage looks at
RowPool ==
    { GoodRow,
      \* net profit 8.00 and 20.00
      [GoodRow EXCEPT !.card_id = "sv2-7", !.price_usd = 7514,
                      !.condition = "nm"],
      [GoodRow EXCEPT !.price_usd = 8858],
      \* net profit 4.00, below the default threshold
      [GoodRow EXCEPT !.price_usd = 7066],
      \* a listing whose card has no CardMetadata row
      [GoodRow EXCEPT !.card_id = "sv9-1", !.has_metadata = FALSE,
                      !.regulation_mark = None, !.legality_standard = None],
      [GoodRow EXCEPT !.card_id = ""],
      [GoodRow EXCEPT !.seller_rating = 960, !.seller_sales = 500],
      [GoodRow EXCEPT !.condition = "PO"],
      [GoodRow EXCEPT !.condition = "played"],
      \* a sub-$25 card bought at 15.00 EUR: net profit below zero
      [GoodRow EXCEPT !.price_usd = 2000, !.price_eur = 1500],
      [GoodRow EXCEPT !.sales_30d = 30, !.active_listings = 10,
                      !.price_trend = 0 - 15],
      [GoodRow EXCEPT !.regulation_mark = "G"] }

UserPool ==
    { [id |-> "A", min_profit_threshold |-> 500, telegram_chat_id |-> TRUE],
      [id |-> "B", min_profit_threshold |-> 1500, telegram_chat_id |-> TRUE],
      [id |-> "C", min_profit_threshold |-> 5000, telegram_chat_id |-> FALSE],
      [id |-> "D", min_profit_threshold |-> 300, telegram_chat_id |-> TRUE] }
UserIds == {u.id : u \in UserPool}

\* days from today to the rotation date of mark G
DaysUntilRotationChoices == {47, 200}

StageLabel(k) ==
    CASE k = 1 -> "variant" [] k = 2 -> "seller" [] k = 3 -> "condition"
      [] k = 4 -> "profit" [] k = 5 -> "velocity" [] k = 6 -> "trend"
      [] k = 7 -> "maturity" [] k = 8 -> "rotation" [] k = 9 -> "headache"
      [] OTHER -> "bundle"

condition_grade(row) ==
    IF row.condition = None THEN "NM" ELSE StripUpper(row.condition)

profit_of(row) ==
    calculate_net_profit(row.price_eur, row.price_usd, get_current_forex_rate,
                         condition_grade(row))

\* the test each stage of scan_for_signals applies before "continue"
StageRejects(k, row, days_until_rotation) ==
    CASE k = 1 ->
            \* canonical_id = metadata.card_id if metadata else price.card_id;
            \* the metadata row was selected by card_id = price.card_id
            validate_variant(row.card_id,
                             IF row.has_metadata THEN row.card_id
                             ELSE row.card_id) # "MATCH"
      [] k = 2 ->
            ~check_seller_quality(
                IF row.seller_rating # Null THEN row.seller_rating ELSE 985,
                IF row.seller_sales # Null THEN row.seller_sales ELSE 100)
      [] k = 3 ->
            \/ condition_grade(row) \notin CardmarketGrade
            \/ map_condition_raises(condition_grade(row))
      [] k = 4 -> profit_of(row).net_profit < DEFAULT_MIN_PROFIT_THRESHOLD
      [] k = 6 ->
            trend_suppress(velocity_score(row.sales_30d, row.active_listings),
                           row.price_trend)
      [] k = 8 ->
            check_rotation_risk(
                IF row.has_metadata THEN row.regulation_mark ELSE None,
                IF row.has_metadata THEN row.legality_standard ELSE None,
                days_until_rotation) \in {"DANGER", "ROTATED"}
      [] k = 10 ->
            /\ ENABLE_BUNDLE_LOGIC
            /\ bundle_suppress(1, row.price_usd, profit_of(row).net_profit)
      [] OTHER -> FALSE

\* where the for-loop body goes after stage k: the next stage, 11 (build the
\* signal) after stage 10, or 0 (continue with the next row) on rejection
AfterStage_fallthrough(k, rejects) == k + 1

AfterStage(k, rejects) == IF rejects THEN 0 ELSE k + 1

\* filter_counts["<stage>"] += 1 follows the stage's "continue" test
CountsAfterStage_onreject(counts, k, rejects) ==
    IF rejects THEN [counts EXCEPT ![k] = @ + 1] ELSE counts

CountsAfterStage(counts, k, rejects) ==
    IF rejects THEN counts ELSE [counts EXCEPT ![k] = @ + 1]

\* signals.sort(key=net_profit, reverse=True): stable, descending
RECURSIVE InsertDesc(_, _)
InsertDesc(sorted, sig) ==
    IF sorted = <<>> THEN <<sig>>
    ELSE IF Head(sorted).net_profit >= sig.net_profit
         THEN <<Head(sorted)>> \o InsertDesc(Tail(sorted), sig)
         ELSE <<sig>> \o sorted
RECURSIVE SortDesc(_)
SortDesc(sigs) ==
    IF sigs = <<>> THEN <<>>
    ELSE InsertDesc(SortDesc(SubSeq(sigs, 1, Len(sigs) - 1)), sigs[Len(sigs)])
\* signals[:max_signals]
Truncate_tail(sigs, cap) ==
    SubSeq(sigs, Len(sigs) - Min(Len(sigs), cap) + 1, Len(sigs))

Truncate(sigs, cap) == SubSeq(sigs, 1, Min(Len(sigs), cap))

\* the values settings.MAX_SIGNALS_PER_SCAN takes: a configured cap of one
\* signal, or not set (the default of the getattr)
MaxSignalsChoices == {1, MAX_SIGNALS_PER_SCAN}

NoStage == [idx |-> 0, stage |-> 0, rejects |-> FALSE, before |-> <<>>]

ScanIdle ==
    /\ scan_pc = "idle" /\ prices = <<>> /\ idx = 0 /\ stage = 0
    /\ stages_run = <<>> /\ rejected_at = <<>> /\ signals = <<>>
    /\ filter_counts = <<>> /\ user_profiles = <<>> /\ uidx = 0
    /\ delivered = <<>> /\ days_until_g = 0
    /\ max_signals = 0 /\ notify_log = <<>> /\ last_stage = NoStage

\* run_and_notify(user_profiles) entered; the MarketPrice query returned
\* `prices`
ScanInit0 ==
    /\ scan_pc = "stages"
    /\ prices \in UNION {[1..n -> RowPool] : n \in 1..MaxPrices}
    /\ days_until_g \in DaysUntilRotationChoices
    \* only cards of mark G have a rotation date for today to be compared to
    /\ (\A i \in 1..Len(prices) : prices[i].regulation_mark # "G")
          => days_until_g = 200
    /\ idx = 1
    /\ stage = 1
    /\ stages_run = [i \in 1..Len(prices) |-> <<>>]
    /\ rejected_at = [i \in 1..Len(prices) |-> 0]
    /\ signals = <<>>
    /\ filter_counts = [k \in 1..10 |-> 0]
    \* one profile, or two profiles with a chat id (each pair in one order:
    \* the loop treats every user alike)
    /\ user_profiles \in
          {<<u>> : u \in UserPool}
          \cup {<<u, v>> : u, v \in {w \in UserPool : w.telegram_chat_id}}
    /\ Len(user_profiles) = 2 =>
          user_profiles[1].min_profit_threshold
              < user_profiles[2].min_profit_threshold
    /\ uidx = 1
    /\ delivered = [u \in UserIds |-> {}]
    /\ max_signals = 0
    /\ notify_log = <<>>
    /\ last_stage = NoStage

\* one stage of the for-loop body of scan_for_signals, for row idx
RunStage ==
    /\ scan_pc = "stages"
    /\ idx <= Len(prices)
    /\ LET row == prices[idx]
           rejects == StageRejects(stage, row, days_until_g)
           nxt == AfterStage(stage, rejects)
       IN /\ stages_run' = [stages_run EXCEPT ![idx] = Append(@, stage)]
          /\ rejected_at' =
                IF rejects /\ rejected_at[idx] = 0
                THEN [rejected_at EXCEPT ![idx] = stage]
                ELSE rejected_at
          /\ filter_counts' = CountsAfterStage(filter_counts, stage, rejects)
          /\ last_stage' = [idx |-> idx, stage |-> stage, rejects |-> rejects,
                            before |-> filter_counts]
          /\ IF nxt = 11
             THEN /\ signals' = Append(signals,
                        [card_id |-> row.card_id,
                         net_profit |-> profit_of(row).net_profit])
                  /\ idx' = idx + 1
                  /\ stage' = 1
             ELSE IF nxt = 0
             THEN /\ idx' = idx + 1
                  /\ stage' = 1
                  /\ UNCHANGED signals
             ELSE /\ stage' = nxt
                  /\ UNCHANGED <<idx, signals>>
    /\ UNCHANGED <<scan_pc, prices, user_profiles, uidx, delivered,
                   days_until_g, max_signals, notify_log>>
    /\ UNCHANGED <<schedVars, cascVars, ioVars, reqVars, extVars>>

\* scan_for_signals after the loop: sort, truncate, return to run_and_notify
FinishScan ==
    /\ scan_pc = "stages"
    /\ idx > Len(prices)
    /\ max_signals' \in MaxSignalsChoices
    /\ signals' = Truncate(SortDesc(signals), max_signals')
    /\ scan_pc' = "notify"
    /\ UNCHANGED <<prices, idx, stage, stages_run, rejected_at, filter_counts,
                   user_profiles, uidx, delivered, days_until_g, notify_log,
                   last_stage>>
    /\ UNCHANGED <<schedVars, cascVars, ioVars, reqVars, extVars>>

\* s for s in signals if s["net_profit"] >= user.min_profit_threshold
user_signals_default(user, sigs) ==
    SelectSeq(sigs, LAMBDA s : s.net_profit >= DEFAULT_MIN_PROFIT_THRESHOLD)

user_signals(user, sigs) ==
    SelectSeq(sigs, LAMBDA s : s.net_profit >= user.min_profit_threshold)

CardIds(sigs) == {sigs[i].card_id : i \in 1..Len(sigs)}

\* How one iteration of the user loop ends:
\*   "returned"      the body ran to its end (send_batch_signals returned its
\*                   count, or there was nothing to send);
\*   "filter_raised" the list comprehension raised;
\*   "send_raised"   send_batch_signals raised (send_signal catches only
\*                   TelegramError).
\* Both exceptions reach "except Exception: ... continue".
UserOutcomes == {"returned", "filter_raised", "send_raised"}

\* the index of the user the loop handles next; n is len(user_profiles)
UidxAfter_abort(i, outcome, n) == IF outcome = "returned" THEN i + 1 ELSE n + 1

UidxAfter(i, outcome, n) == i + 1

\* one iteration of "for user in user_profiles" in run_and_notify;
\* sent tells whether the chat provider accepted the batch (send_signal
\* returns False on a provider error)
NotifyUser ==
    /\ scan_pc = "notify"
    /\ uidx <= Len(user_profiles)
    /\ \E sent \in BOOLEAN, outcome \in UserOutcomes :
          LET user == user_profiles[uidx]
              mine == IF outcome = "filter_raised" THEN <<>>
                      ELSE user_signals(user, signals)
              offered == IF mine # <<>> /\ user.telegram_chat_id
                         THEN CardIds(mine) ELSE {}
          IN /\ outcome = "send_raised" => offered # {}
             /\ (outcome = "send_raised" \/ offered = {}) => ~sent
             /\ delivered' =
                   IF sent
                   THEN [delivered EXCEPT ![user.id] = @ \cup offered]
                   ELSE delivered
             /\ notify_log' = Append(notify_log,
                   [user |-> user.id, offered |-> offered,
                    outcome |-> outcome])
             /\ uidx' = UidxAfter(uidx, outcome, Len(user_profiles))
    /\ UNCHANGED <<scan_pc, prices, idx, stage, stages_run, rejected_at,
                   signals, filter_counts, user_profiles, days_until_g,
                   max_signals, last_stage>>
    /\ UNCHANGED <<schedVars, cascVars, ioVars, reqVars, extVars>>

\* notify_completed: run_and_notify returns total_delivered
NotifyCompleted ==
    /\ scan_pc = "notify"
    /\ uidx > Len(user_profiles)
    /\ scan_pc' = "done"
    /\ UNCHANGED <<prices, idx, stage, stages_run, rejected_at, signals,
                   filter_counts, user_profiles, uidx, delivered,
                   days_until_g, max_signals, notify_log, last_stage>>
    /\ UNCHANGED <<schedVars, cascVars, ioVars, reqVars, extVars>>

(***************************************************************************)
(* Scheduler, src/pipeline/scheduler.py                                    *)
(*                                                                         *)
(* The cadences are environment settings (src/config.py:270-284).  The     *)
(* model runs the scheduler with small hour values so that every job       *)
(* becomes due within MaxTime; the minute settings keep their defaults.    *)
(***************************************************************************)
JUSTTCG_POLL_INTERVAL_HOURS == 1
POKEMONTCG_REFRESH_INTERVAL_HOURS == 2
POKETRACE_POLL_INTERVAL_HOURS == 1
EBAY_POLL_INTERVAL_HOURS == 1
SOCIAL_SPIKE_REVERT_HOURS == 1
SOCIAL_SPIKE_POLL_INTERVAL_MINUTES == 30
SIGNAL_SCAN_INTERVAL_MINUTES == 30

\* minutes expressed in the 30-minute unit of the scheduler clock
Units(minutes) == minutes \div 30

justtcg_cadence_minutes == JUSTTCG_POLL_INTERVAL_HOURS * 60
pokemontcg_cadence_minutes == POKEMONTCG_REFRESH_INTERVAL_HOURS * 60
poketrace_cadence_minutes == POKETRACE_POLL_INTERVAL_HOURS * 60
ebay_cadence_minutes == EBAY_POLL_INTERVAL_HOURS * 60
signal_cadence_minutes == SIGNAL_SCAN_INTERVAL_MINUTES

\* datetime.min: earlier than every clock value by more than any cadence
datetime_min == 0 - 1000000

Cards == {"sv1-25", "sv2-7"}
NoCard == "none"
NoTime == 0 - 1
Jobs == {"justtcg", "pokemontcg", "poketrace", "ebay", "scan"}
JobOrder(j) ==
    CASE j = "justtcg" -> 1
      [] j = "pokemontcg" -> 2
      [] j = "poketrace" -> 3
      [] j = "ebay" -> 4
      [] j = "scan" -> 5
      [] OTHER -> 0
JobPcs == {"poll_justtcg", "poll_pokemontcg", "poll_poketrace", "poll_ebay",
           "scan_signals"}
\* the position of run() while job j runs
JobPc(j) ==
    CASE j = "justtcg" -> "poll_justtcg"
      [] j = "pokemontcg" -> "poll_pokemontcg"
      [] j = "poketrace" -> "poll_poketrace"
      [] j = "ebay" -> "poll_ebay"
      [] j = "scan" -> "scan_signals"
      [] OTHER -> "none"
\* The scheduler is one asyncio task: other tasks and the signal handler's
\* shutdown task run only while it is suspended at an await, that is inside
\* a job or in one of the two sleeps.
AwaitPcs == JobPcs \cup {"sleep", "error_sleep"}

Op(op, job, outcome, active, pruned, card, prev) ==
    [op |-> op, job |-> job, outcome |-> outcome, active |-> active,
     pruned |-> pruned, card |-> card, prev |-> prev]
SimpleOp(op, job, outcome) == Op(op, job, outcome, FALSE, {}, NoCard, NoTime)

SchedIdle ==
    /\ now = 0 /\ pc = "idle"
    /\ justtcg_last_poll = 0 /\ pokemontcg_last_poll = 0
    /\ poketrace_last_poll = 0 /\ ebay_last_poll = 0
    /\ signal_last_scan = datetime_min
    /\ social_spikes = <<>>
    /\ shutdown_event = FALSE
    /\ signal_generator = "None" /\ entrypoint = "none"
    /\ ebay_app_id = FALSE
    /\ boosts = 0 /\ shutdown_at = "none" /\ shutdown_tick_done = FALSE
    /\ last = SimpleOp("init", "none", "none")

\* Scheduler.__init__ as called by run_scheduler: main() passes no
\* signal_generator (main.py:156); other callers may pass one.
SchedInit ==
    /\ now = 0
    /\ pc = "loop_top"
    /\ justtcg_last_poll = now
    /\ pokemontcg_last_poll = now
    /\ poketrace_last_poll = now
    /\ ebay_last_poll = now
    /\ signal_last_scan = datetime_min
    /\ social_spikes = <<>>
    /\ shutdown_event = FALSE
    /\ \/ entrypoint = "main" /\ signal_generator = "None"
       \/ entrypoint = "caller" /\ signal_generator = "SignalGenerator"
    /\ ebay_app_id \in BOOLEAN
    /\ boosts = 0
    /\ shutdown_at = "none"
    /\ shutdown_tick_done = FALSE
    /\ last = SimpleOp("init", "none", "none")

\* ---- increase_poll_cadence -------------------------------------------
SpikesAfterBoost_keep(spikes, card_id, t) ==
    IF card_id \in DOMAIN spikes THEN spikes
    ELSE [c \in DOMAIN spikes \cup {card_id} |->
            IF c = card_id THEN t + Units(SOCIAL_SPIKE_REVERT_HOURS * 60)
            ELSE spikes[c]]

SpikesAfterBoost(spikes, card_id, t) ==
    [c \in DOMAIN spikes \cup {card_id} |->
        IF c = card_id THEN t + Units(SOCIAL_SPIKE_REVERT_HOURS * 60)
        ELSE spikes[c]]

increase_poll_cadence(card_id) ==
    /\ pc \in AwaitPcs
    /\ boosts < MaxBoosts
    /\ boosts' = boosts + 1
    /\ social_spikes' = SpikesAfterBoost(social_spikes, card_id, now)
    /\ last' = Op("increase_poll_cadence", "none", "none", FALSE, {}, card_id,
                  IF card_id \in DOMAIN social_spikes
                  THEN social_spikes[card_id] ELSE NoTime)
    /\ UNCHANGED <<now, pc, justtcg_last_poll, pokemontcg_last_poll,
                   poketrace_last_poll, ebay_last_poll, signal_last_scan,
                   shutdown_event, signal_generator, entrypoint, ebay_app_id,
                   shutdown_at, shutdown_tick_done>>
    /\ UNCHANGED <<cascVars, scanVars, ioVars, reqVars, extVars>>

\* ---- shutdown ----------------------------------------------------------
shutdown ==
    /\ pc \in AwaitPcs
    /\ ~shutdown_event
    /\ shutdown_event' = TRUE
    /\ shutdown_at' = pc
    /\ last' = SimpleOp("shutdown", "none", "none")
    /\ UNCHANGED <<now, pc, justtcg_last_poll, pokemontcg_last_poll,
                   poketrace_last_poll, ebay_last_poll, signal_last_scan,
                   social_spikes, signal_generator, entrypoint, ebay_app_id,
                   boosts, shutdown_tick_done>>
    /\ UNCHANGED <<cascVars, scanVars, ioVars, reqVars, extVars>>

\* ---- the due predicates -----------------------------------------------
SpikeExpired_lt(revert_time, t) == revert_time < t

SpikeExpired(revert_time, t) == revert_time <= t

PrunedSpikes(spikes, t) ==
    [c \in {k \in DOMAIN spikes : ~SpikeExpired(spikes[k], t)} |-> spikes[c]]

MinCadence_base(spikes, t) == justtcg_cadence_minutes

MinCadence(spikes, t) ==
    IF \E c \in DOMAIN spikes : ~SpikeExpired(spikes[c], t)
    THEN Min(justtcg_cadence_minutes, SOCIAL_SPIKE_POLL_INTERVAL_MINUTES)
    ELSE justtcg_cadence_minutes

should_poll_justtcg(spikes, last_poll, t) ==
    (t - last_poll) >= Units(MinCadence(spikes, t))

should_poll_pokemontcg(last_poll, t) ==
    (t - last_poll) >= Units(pokemontcg_cadence_minutes)

should_poll_poketrace(last_poll, t) ==
    (t - last_poll) >= Units(poketrace_cadence_minutes)

should_poll_ebay(app_id, last_poll, t) ==
    IF ~app_id THEN FALSE
    ELSE (t - last_poll) >= Units(ebay_cadence_minutes)

should_scan_signals(generator, last_scan, t) ==
    IF generator = "None" THEN FALSE
    ELSE (t - last_scan) >= Units(signal_cadence_minutes)

\* the due predicate of job j evaluated on the current state
Due(j) ==
    CASE j = "justtcg" ->
            should_poll_justtcg(social_spikes, justtcg_last_poll, now)
      [] j = "pokemontcg" -> should_poll_pokemontcg(pokemontcg_last_poll, now)
      [] j = "poketrace" -> should_poll_poketrace(poketrace_last_poll, now)
      [] j = "ebay" -> should_poll_ebay(ebay_app_id, ebay_last_poll, now)
      [] j = "scan" ->
            should_scan_signals(signal_generator, signal_last_scan, now)
      [] OTHER -> FALSE

\* ---- Scheduler.run ------------------------------------------------------
\* while not self._shutdown_event.is_set(): ... finally: scheduler_stopped
LoopExits_never(event) == FALSE

LoopExits(event) == event

LoopTop ==
    /\ pc = "loop_top"
    /\ IF LoopExits(shutdown_event)
       THEN pc' = "stopped"
       ELSE pc' = "check_justtcg"
    /\ last' = SimpleOp("loop_top", "none", "none")
    /\ UNCHANGED <<now, justtcg_last_poll, pokemontcg_last_poll,
                   poketrace_last_poll, ebay_last_poll, signal_last_scan,
                   social_spikes, shutdown_event, signal_generator, entrypoint,
                   ebay_app_id, boosts, shutdown_at, shutdown_tick_done>>
    /\ UNCHANGED <<cascVars, scanVars, ioVars, reqVars, extVars>>

\* if self._should_poll_justtcg(): prunes expired overrides, then decides
CheckJusttcg ==
    /\ pc = "check_justtcg"
    /\ social_spikes' = PrunedSpikes(social_spikes, now)
    /\ LET due == should_poll_justtcg(social_spikes, justtcg_last_poll, now)
       IN /\ pc' = IF due THEN "poll_justtcg" ELSE "check_pokemontcg"
          /\ last' = Op("check_justtcg", "justtcg",
                        IF due THEN "due" ELSE "not_due",
                        \E c \in DOMAIN social_spikes : social_spikes[c] > now,
                        DOMAIN social_spikes \ DOMAIN social_spikes',
                        NoCard, NoTime)
    /\ UNCHANGED <<now, justtcg_last_poll, pokemontcg_last_poll,
                   poketrace_last_poll, ebay_last_poll, signal_last_scan,
                   shutdown_event, signal_generator, entrypoint, ebay_app_id,
                   boosts, shutdown_at, shutdown_tick_done>>
    /\ UNCHANGED <<cascVars, scanVars, ioVars, reqVars, extVars>>

\* the parts shared by the other four due-checks
CheckStep(at, job, due, run_pc, next_pc) ==
    /\ pc = at
    /\ pc' = IF due THEN run_pc ELSE next_pc
    /\ last' = SimpleOp("check", job, IF due THEN "due" ELSE "not_due")
    /\ UNCHANGED <<now, justtcg_last_poll, pokemontcg_last_poll,
                   poketrace_last_poll, ebay_last_poll, signal_last_scan,
                   social_spikes, shutdown_event, signal_generator, entrypoint,
                   ebay_app_id, boosts, shutdown_at, shutdown_tick_done>>
    /\ UNCHANGED <<cascVars, scanVars, ioVars, reqVars, extVars>>

CheckPokemontcg ==
    CheckStep("check_pokemontcg", "pokemontcg",
              should_poll_pokemontcg(pokemontcg_last_poll, now),
              "poll_pokemontcg", "check_poketrace")

CheckPoketrace ==
    CheckStep("check_poketrace", "poketrace",
              should_poll_poketrace(poketrace_last_poll, now),
              "poll_poketrace", "check_ebay")

CheckEbay ==
    CheckStep("check_ebay", "ebay",
              should_poll_ebay(ebay_app_id, ebay_last_poll, now),
              "poll_ebay", "check_scan")

CheckScan ==
    CheckStep("check_scan", "scan",
              should_scan_signals(signal_generator, signal_last_scan, now),
              "scan_signals", "sleep")

(***************************************************************************)
(* A poll job: async with session_factory() / async with Client(), then    *)
(* one try/except per set, then last_poll = datetime.now().  Outcomes:     *)
(*   "ok"               every set fetched and stored;                      *)
(*   "set_fetch_failed" a fetch or store raised inside the per-set try and *)
(*                      was logged there;                                  *)
(*   "raised"           an exception outside the per-set try (entering or  *)
(*                      leaving the session or the client context, for     *)
(*                      instance httpx.AsyncClient rejecting the header    *)
(*                      built from the API key) leaves the job; the        *)
(*                      last_poll assignment is skipped and run()'s        *)
(*                      "except Exception" takes over.                     *)
(* d is the time the job took.                                             *)
(***************************************************************************)
PollOutcomes == {"ok", "set_fetch_failed", "raised"}

\* the timestamp a job leaves behind
LastPollAfter(outcome, old, t) == IF outcome = "raised" THEN old ELSE t

\* where run() continues after a job
PcAfter(outcome, next_pc) == IF outcome = "raised" THEN "error_sleep" ELSE next_pc

PollStep(at, job, outcome, d, next_pc) ==
    /\ pc = at
    /\ now + d <= MaxTime
    /\ now' = now + d
    /\ pc' = PcAfter(outcome, next_pc)
    /\ last' = SimpleOp("job", job, outcome)
    /\ UNCHANGED <<social_spikes, shutdown_event, signal_generator, entrypoint,
                   ebay_app_id, boosts, shutdown_at, shutdown_tick_done>>
    /\ UNCHANGED <<cascVars, scanVars, ioVars, reqVars, extVars>>

poll_justtcg ==
    \E outcome \in PollOutcomes, d \in 0..1 :
        /\ PollStep("poll_justtcg", "justtcg", outcome, d, "check_pokemontcg")
        /\ justtcg_last_poll' = LastPollAfter(outcome, justtcg_last_poll, now')
        /\ UNCHANGED <<pokemontcg_last_poll, poketrace_last_poll,
                       ebay_last_poll, signal_last_scan>>

poll_pokemontcg ==
    \E outcome \in PollOutcomes, d \in 0..1 :
        /\ PollStep("poll_pokemontcg", "pokemontcg", outcome, d,
                    "check_poketrace")
        /\ pokemontcg_last_poll' =
               LastPollAfter(outcome, pokemontcg_last_poll, now')
        /\ UNCHANGED <<justtcg_last_poll, poketrace_last_poll, ebay_last_poll,
                       signal_last_scan>>

poll_poketrace ==
    \E outcome \in PollOutcomes, d \in 0..1 :
        /\ PollStep("poll_poketrace", "poketrace", outcome, d, "check_ebay")
        /\ poketrace_last_poll' =
               LastPollAfter(outcome, poketrace_last_poll, now')
        /\ UNCHANGED <<justtcg_last_poll, pokemontcg_last_poll, ebay_last_poll,
                       signal_last_scan>>

poll_ebay ==
    \E outcome \in PollOutcomes, d \in 0..1 :
        /\ PollStep("poll_ebay", "ebay", outcome, d, "check_scan")
        /\ ebay_last_poll' = LastPollAfter(outcome, ebay_last_poll, now')
        /\ UNCHANGED <<justtcg_last_poll, pokemontcg_last_poll,
                       poketrace_last_poll, signal_last_scan>>

\* _scan_signals: the whole body is inside try/except, and both the normal
\* path and the handler assign _signal_last_scan
scan_signals ==
    \E outcome \in {"ok", "failed"}, d \in 0..1 :
        /\ PollStep("scan_signals", "scan", outcome, d, "sleep")
        /\ signal_last_scan' = now'
        /\ UNCHANGED <<justtcg_last_poll, pokemontcg_last_poll,
                       poketrace_last_poll, ebay_last_poll>>

\* await asyncio.wait_for(self._shutdown_event.wait(), timeout=5): returns
\* at once when the event is set, else times out (TimeoutError: continue)
Sleep ==
    /\ pc = "sleep"
    /\ \E d \in 0..1 :
          /\ shutdown_event => d = 0
          /\ now + d <= MaxTime
          /\ now' = now + d
    /\ pc' = "loop_top"
    /\ shutdown_tick_done' = shutdown_event
    /\ last' = SimpleOp("sleep", "none", "none")
    /\ UNCHANGED <<justtcg_last_poll, pokemontcg_last_poll,
                   poketrace_last_poll, ebay_last_poll, signal_last_scan,
                   social_spikes, shutdown_event, signal_generator, entrypoint,
                   ebay_app_id, boosts, shutdown_at>>
    /\ UNCHANGED <<cascVars, scanVars, ioVars, reqVars, extVars>>

\* except Exception: log scheduler_unknown_error; await asyncio.sleep(5)
ErrorSleep ==
    /\ pc = "error_sleep"
    /\ \E d \in 0..1 :
          /\ now + d <= MaxTime
          /\ now' = now + d
    /\ pc' = "loop_top"
    /\ shutdown_tick_done' = shutdown_event
    /\ last' = SimpleOp("error_sleep", "none", "none")
    /\ UNCHANGED <<justtcg_last_poll, pokemontcg_last_poll,
                   poketrace_last_poll, ebay_last_poll, signal_last_scan,
                   social_spikes, shutdown_event, signal_generator, entrypoint,
                   ebay_app_id, boosts, shutdown_at>>
    /\ UNCHANGED <<cascVars, scanVars, ioVars, reqVars, extVars>>

BoostCard == \E card_id \in Cards : increase_poll_cadence(card_id)

\* the steps of the scheduler task itself
RunStep ==
    \/ LoopTop
    \/ CheckJusttcg
    \/ poll_justtcg
    \/ CheckPokemontcg
    \/ poll_pokemontcg
    \/ CheckPoketrace
    \/ poll_poketrace
    \/ CheckEbay
    \/ poll_ebay
    \/ CheckScan
    \/ scan_signals
    \/ Sleep
    \/ ErrorSleep

(***************************************************************************)
(* Database session and upstream calls of one job run                      *)
(* (src/pipeline/scheduler.py, justtcg.py, poketrace.py, ebay.py,          *)
(*  src/signals/generator.py, src/utils/forex.py)                          *)
(*                                                                         *)
(* One run of a job is followed await by await: every upstream HTTP call   *)
(* is a request step and a response step, every database statement and     *)
(* every commit is a step.  A statement executed on an AsyncSession begins *)
(* a transaction that stays open until commit, rollback or close (the      *)
(* engine of main.py is created without autocommit).  Database statements  *)
(* are taken to succeed; upstream calls may fail.                          *)
(***************************************************************************)

MaxBatch == 2
MaxSelected == 2

IoJobs == {"justtcg", "poketrace", "ebay", "scan"}
IoCards == {"sv1-1", "sv1-25"}
IoSources == {"justtcg", "poketrace", "ebay"}
IoKeys == IoCards \X IoSources

\* popular_sets of _poll_justtcg and _poll_poketrace
popular_sets == <<"sv1", "sv1pt5", "sv2">>

\* the jobs whose loop runs over the result of a SELECT
SelectsFirst(job) == job \in {"ebay", "scan"}

\* the value of `source` a job's store operation writes
SourceOf(job) == IF job = "scan" THEN "justtcg" ELSE job

\* the store operations that INSERT INTO price_history next to the upsert
InsertsHistory(job) == job = "justtcg"

\* store_prices commits once after its loop; store_velocity and store_price
\* commit after their single upsert
CommitsPerRecord(job) == job \in {"poketrace", "ebay"}

SeqsUpTo(S, n) == UNION {[1..k -> S] : k \in 0..n}

\* results of the upstream call of one loop item
FetchedRecords(job) ==
    IF job = "justtcg"
    THEN [card_id : IoCards, priced : BOOLEAN]
    ELSE [card_id : IoCards, priced : {TRUE}]

\* rows a SELECT may return: card ids, each at most once
SelectedCards ==
    {s \in SeqsUpTo(IoCards, MaxSelected) :
        \A i, j \in 1..Len(s) : i # j => s[i] # s[j]}

NoWrites == [k \in IoKeys |-> 0]

AddWrites(f, g) == [k \in IoKeys |-> f[k] + g[k]]

\* the position after loop item i is finished
AfterItem(i, items) == IF i >= Len(items) THEN "close" ELSE "fetch"

IoIdle ==
    /\ io_job = "justtcg" /\ io_pc = "idle" /\ io_items = <<>> /\ io_idx = 1
    /\ io_batch = <<>> /\ tx_open = FALSE /\ http_in_flight = FALSE
    /\ tx_upserts = NoWrites /\ tx_history = NoWrites
    /\ market_upserts = NoWrites /\ price_history = NoWrites
    /\ forex_key = FALSE /\ forex_fresh = FALSE

\* the job entered `async with self.session_factory() as session`
IoInit0 ==
    /\ io_job \in IoJobs
    /\ io_pc = IF SelectsFirst(io_job) THEN "select" ELSE "fetch"
    /\ io_items = IF SelectsFirst(io_job) THEN <<>> ELSE popular_sets
    /\ io_idx = 1
    /\ io_batch = <<>>
    /\ tx_open = FALSE
    /\ http_in_flight = FALSE
    /\ tx_upserts = NoWrites
    /\ tx_history = NoWrites
    /\ market_upserts = NoWrites
    /\ price_history = NoWrites
    \* settings.EXCHANGERATE_API_KEY is set; the forex cache is younger than
    \* FOREX_CACHE_TTL_SECONDS (both read by the scan only)
    /\ forex_key \in BOOLEAN
    /\ forex_fresh \in BOOLEAN
    /\ io_job # "scan" => (~forex_key /\ ~forex_fresh)
    /\ ~forex_key => ~forex_fresh

\* _poll_ebay: SELECT card_id FROM market_prices ...;
\* scan_for_signals: select(MarketPrice)
IoSelect ==
    /\ io_pc = "select"
    /\ \E ok \in BOOLEAN, rows \in SelectedCards :
          /\ ~ok => rows = <<>>
          /\ io_items' = rows
          /\ IF ~ok /\ io_job = "scan"
             THEN \* the exception leaves `async with`: session closed
                  /\ tx_open' = FALSE
                  /\ io_pc' = "closed"
             ELSE \* _poll_ebay catches the exception: card_ids = []
                  /\ tx_open' = TRUE
                  /\ io_pc' = IF rows = <<>> THEN "close" ELSE "fetch"
    /\ UNCHANGED <<io_job, io_idx, io_batch, http_in_flight, tx_upserts,
                   tx_history, market_upserts, price_history, forex_key,
                   forex_fresh>>
    /\ UNCHANGED <<schedVars, cascVars, scanVars, reqVars, extVars>>

\* the upstream request of the current item is issued:
\* client.fetch_set_prices / fetch_set_velocity / get_market_price, or the
\* forex request of get_current_forex_rate at stage 4 of a row
IoRequest ==
    /\ io_pc = "fetch"
    /\ io_job = "scan" => (forex_key /\ ~forex_fresh)
    /\ http_in_flight' = TRUE
    /\ io_pc' = "response"
    /\ UNCHANGED <<io_job, io_items, io_idx, io_batch, tx_open, tx_upserts,
                   tx_history, market_upserts, price_history, forex_key,
                   forex_fresh>>
    /\ UNCHANGED <<schedVars, cascVars, scanVars, reqVars, extVars>>

\* the item is finished without an upstream request: a row of the scan that
\* is rejected before stage 4 or that uses the static or the cached rate
\* (its metadata SELECT runs in the open transaction), or a card of the eBay
\* poll for which _get_access_token returned "" without a request
IoNoRequest ==
    /\ io_pc = "fetch"
    /\ io_job \in {"scan", "ebay"}
    /\ io_idx' = io_idx + 1
    /\ io_pc' = AfterItem(io_idx, io_items)
    /\ tx_open' = IF io_job = "scan" THEN TRUE ELSE tx_open
    /\ UNCHANGED <<io_job, io_items, io_batch, http_in_flight, tx_upserts,
                   tx_history, market_upserts, price_history, forex_key,
                   forex_fresh>>
    /\ UNCHANGED <<schedVars, cascVars, scanVars, reqVars, extVars>>

\* the upstream call returned or raised
IoResponse ==
    /\ io_pc = "response"
    /\ http_in_flight' = FALSE
    /\ \E ok \in BOOLEAN, batch \in SeqsUpTo(FetchedRecords(io_job), MaxBatch) :
          /\ ~ok => batch = <<>>
          /\ io_job = "scan" => batch = <<>>
          /\ io_job = "ebay" =>
                batch \in {<<>>, <<[card_id |-> io_items[io_idx],
                                     priced |-> TRUE]>>}
          /\ io_batch' = batch
          /\ forex_fresh' = IF io_job = "scan" /\ ok THEN TRUE ELSE forex_fresh
          /\ IF batch = <<>>
             THEN \* nothing to store: an exception caught by the loop, an
                  \* empty list, no eBay price, or the rest of a scanned row
                  /\ io_idx' = io_idx + 1
                  /\ io_pc' = AfterItem(io_idx, io_items)
             ELSE /\ io_idx' = io_idx
                  /\ io_pc' = "execute"
    /\ UNCHANGED <<io_job, io_items, tx_open, tx_upserts, tx_history,
                   market_upserts, price_history, forex_key>>
    /\ UNCHANGED <<schedVars, cascVars, scanVars, reqVars, extVars>>

\* the statements of the store operation for the first record of the batch:
\* store_prices (upsert and price_history insert, or skip of a record
\* without prices), store_velocity, store_price (upsert only)
IoExecute ==
    /\ io_pc = "execute"
    /\ io_batch # <<>>
    /\ LET rec == Head(io_batch)
           key == <<rec.card_id, SourceOf(io_job)>>
       IN IF rec.priced
          THEN /\ tx_open' = TRUE
               /\ tx_upserts' = [tx_upserts EXCEPT ![key] = @ + 1]
               /\ tx_history' = IF InsertsHistory(io_job)
                                THEN [tx_history EXCEPT ![key] = @ + 1]
                                ELSE tx_history
          ELSE UNCHANGED <<tx_open, tx_upserts, tx_history>>
    /\ io_batch' = Tail(io_batch)
    /\ io_pc' = IF CommitsPerRecord(io_job) \/ Tail(io_batch) = <<>>
                THEN "commit" ELSE "execute"
    /\ UNCHANGED <<io_job, io_items, io_idx, http_in_flight, market_upserts,
                   price_history, forex_key, forex_fresh>>
    /\ UNCHANGED <<schedVars, cascVars, scanVars, reqVars, extVars>>

\* session.commit() of the store operation
IoCommit ==
    /\ io_pc = "commit"
    /\ market_upserts' = AddWrites(market_upserts, tx_upserts)
    /\ price_history' = AddWrites(price_history, tx_history)
    /\ tx_upserts' = NoWrites
    /\ tx_history' = NoWrites
    /\ tx_open' = FALSE
    /\ IF io_batch # <<>>
       THEN /\ io_pc' = "execute"
            /\ io_idx' = io_idx
       ELSE /\ io_pc' = AfterItem(io_idx, io_items)
            /\ io_idx' = io_idx + 1
    /\ UNCHANGED <<io_job, io_items, io_batch, http_in_flight, forex_key,
                   forex_fresh>>
    /\ UNCHANGED <<schedVars, cascVars, scanVars, reqVars, extVars>>

\* the end of `async with self.session_factory() as session`
IoClose ==
    /\ io_pc = "close"
    /\ tx_open' = FALSE
    /\ tx_upserts' = NoWrites
    /\ tx_history' = NoWrites
    /\ io_pc' = "closed"
    /\ UNCHANGED <<io_job, io_items, io_idx, io_batch, http_in_flight,
                   market_upserts, price_history, forex_key, forex_fresh>>
    /\ UNCHANGED <<schedVars, cascVars, scanVars, reqVars, extVars>>

(***************************************************************************)
(* _request of JustTCGClient, PokeTraceClient and PokemonTCGClient         *)
(* (src/pipeline/justtcg.py, poketrace.py, pokemontcg.py): the same retry  *)
(* loop in the three clients                                               *)
(***************************************************************************)

\* defaults of __init__
max_retries == 3
base_backoff == 1

ReqClients == {"justtcg", "poketrace", "pokemontcg"}

\* what one `await self._client.request(...)` can produce: a response with a
\* status code, or httpx.RequestError (no response)
Outcomes ==
    [kind : {"status"}, code : {200, 400, 404, 429, 500, 503}]
        \cup {[kind |-> "error", code |-> 0]}

RECURSIVE Pow2(_)
Pow2(n) == IF n = 0 THEN 1 ELSE 2 * Pow2(n - 1)

wait_time_linear(n) == base_backoff * (n + 1)

\* wait_time = self._base_backoff * (2 ** attempt)
wait_time(n) == base_backoff * Pow2(n)

\* `if e.response.status_code >= 500` of the HTTPStatusError handler
RetryableStatus_client(code) == code >= 400

RetryableStatus(code) == code >= 500

\* response.raise_for_status(): anything but a 2xx raises HTTPStatusError
IsSuccess(code) == code >= 200 /\ code <= 299

\* how one pass of the loop body ends
AttemptResult(o) ==
    IF o.kind = "error" THEN "retry"
    ELSE IF o.code = 429 THEN "retry"
    ELSE IF IsSuccess(o.code) THEN "returned"
    ELSE IF RetryableStatus(o.code) THEN "retry"
    ELSE "raised"

ReqIdle ==
    /\ req_client = "justtcg" /\ req_pc = "idle" /\ attempt = 0
    /\ responses = <<>> /\ slept = <<>>

\* _request was called
ReqInit0 ==
    /\ req_client \in ReqClients
    /\ req_pc = "attempt"
    /\ attempt = 0
    /\ responses = <<>>
    /\ slept = <<>>

\* one pass of `for attempt in range(self._max_retries + 1)`
SendAttempt ==
    /\ req_pc = "attempt"
    /\ attempt <= max_retries
    /\ \E o \in Outcomes :
          /\ responses' = Append(responses, o)
          /\ IF AttemptResult(o) = "retry"
             THEN /\ slept' = Append(slept, wait_time(attempt))
                  /\ attempt' = attempt + 1
                  /\ req_pc' = "attempt"
             ELSE /\ slept' = slept
                  /\ attempt' = attempt
                  /\ req_pc' = AttemptResult(o)
    /\ UNCHANGED req_client
    /\ UNCHANGED <<schedVars, cascVars, scanVars, ioVars, extVars>>

\* the loop ran out: raise RuntimeError(...) from last_error
RaiseAfterLoop ==
    /\ req_pc = "attempt"
    /\ attempt = max_retries + 1
    /\ req_pc' = "exhausted"
    /\ UNCHANGED <<req_client, attempt, responses, slept>>
    /\ UNCHANGED <<schedVars, cascVars, scanVars, ioVars, extVars>>

(***************************************************************************)
(* TelegramNotifier (src/signals/telegram.py) and DiscordNotifier          *)
(* (src/signals/delivery.py): send_signal, send_batch_signals and          *)
(* send_daily_digest                                                       *)
(***************************************************************************)

MaxNotify == 2

NtfChannels == {"telegram", "discord"}
NtfOps == {"send_signal", "send_batch_signals", "send_daily_digest"}

\* a signal dict: its numeric fields can be formatted by float(), or not
NtfSignals == [card_id : {"sv1-1"}, well_formed : BOOLEAN]

\* what the send of one formatted message produces: delivery, or the
\* exception of the client library (telegram.error.TelegramError and its
\* subclasses from Bot.send_message; an httpx error from the Discord POST
\* or its raise_for_status)
SendOutcomes(channel) ==
    IF channel = "telegram" THEN {"ok", "TelegramError"}
    ELSE {"ok", "HTTPError"}

\* `except telegram.error.TelegramError` / `except Exception`
Catches(channel, exc) ==
    IF channel = "telegram" THEN exc = "TelegramError" ELSE TRUE

\* the try block of send_signal and of send_daily_digest: format, then send;
\* float() of a field that is not a number raises ValueError or TypeError
TryFormatAndSend(channel, formattable, outcome) ==
    LET exc == IF ~formattable THEN "ValueError" ELSE outcome
    IN IF exc = "ok" THEN "True"
       ELSE IF Catches(channel, exc) THEN "False"
       ELSE "raise"

\* send_signal(chat_id, signal)
send_signal(channel, enabled, signal, outcome) ==
    IF ~enabled THEN "False"
    ELSE TryFormatAndSend(channel, signal.well_formed, outcome)

\* send_daily_digest(chat_id, signals)
send_daily_digest(channel, enabled, sigs, outcome) ==
    IF ~enabled THEN "False"
    ELSE IF sigs = <<>> THEN "False"
    ELSE TryFormatAndSend(channel,
                          \A i \in 1..Len(sigs) : sigs[i].well_formed,
                          outcome)

NtfIdle ==
    /\ ntf_channel = "telegram" /\ ntf_op = "send_signal"
    /\ ntf_enabled = FALSE /\ ntf_signals = <<>> /\ ntf_idx = 0
    /\ ntf_delivered = 0 /\ ntf_pc = "idle" /\ ntf_ok = FALSE

\* an operation of a notifier was called
NtfInit0 ==
    /\ ntf_channel \in NtfChannels
    /\ ntf_op \in NtfOps
    /\ ntf_enabled \in BOOLEAN
    /\ ntf_signals \in UNION {[1..n -> NtfSignals] : n \in 0..MaxNotify}
    /\ ntf_op = "send_signal" => Len(ntf_signals) = 1
    /\ ntf_idx = 0
    /\ ntf_delivered = 0
    /\ ntf_pc = "running"
    /\ ntf_ok = FALSE

SendOne ==
    /\ ntf_pc = "running"
    /\ ntf_op = "send_signal"
    /\ \E outcome \in SendOutcomes(ntf_channel) :
          LET res == send_signal(ntf_channel, ntf_enabled, ntf_signals[1],
                                 outcome)
          IN /\ ntf_pc' = IF res = "raise" THEN "raised" ELSE "returned"
             /\ ntf_ok' = (res = "True")
    /\ UNCHANGED <<ntf_channel, ntf_op, ntf_enabled, ntf_signals, ntf_idx,
                   ntf_delivered>>
    /\ UNCHANGED <<baseVars, ntfOthers>>

\* one pass of `for index, signal in enumerate(signals)`, or the return
\* after the loop (at once when the notifier is disabled)
SendBatch ==
    /\ ntf_pc = "running"
    /\ ntf_op = "send_batch_signals"
    /\ IF ~ntf_enabled \/ ntf_idx = Len(ntf_signals)
       THEN /\ ntf_pc' = "returned"
            /\ UNCHANGED <<ntf_idx, ntf_delivered>>
       ELSE \E outcome \in SendOutcomes(ntf_channel) :
               LET res == send_signal(ntf_channel, ntf_enabled,
                                      ntf_signals[ntf_idx + 1], outcome)
               IN /\ ntf_pc' = IF res = "raise" THEN "raised" ELSE "running"
                  /\ ntf_delivered' = IF res = "True" THEN ntf_delivered + 1
                                      ELSE ntf_delivered
                  /\ ntf_idx' = ntf_idx + 1
    /\ UNCHANGED <<ntf_channel, ntf_op, ntf_enabled, ntf_signals, ntf_ok>>
    /\ UNCHANGED <<baseVars, ntfOthers>>

SendDigest ==
    /\ ntf_pc = "running"
    /\ ntf_op = "send_daily_digest"
    /\ \E outcome \in SendOutcomes(ntf_channel) :
          LET res == send_daily_digest(ntf_channel, ntf_enabled, ntf_signals,
                                       outcome)
          IN /\ ntf_pc' = IF res = "raise" THEN "raised" ELSE "returned"
             /\ ntf_ok' = (res = "True")
    /\ UNCHANGED <<ntf_channel, ntf_op, ntf_enabled, ntf_signals, ntf_idx,
                   ntf_delivered>>
    /\ UNCHANGED <<baseVars, ntfOthers>>

(***************************************************************************)
(* score_candidates (src/signals/rotation.py)                              *)
(***************************************************************************)

MaxCandidates == 2

\* class UserTier(IntEnum)
UserTier == [PREMIUM |-> 3, STANDARD |-> 2, FREE |-> 1]

\* tier labels a candidate may carry ("vip" stands for any other string)
TierLabels == {"shop", "pro", "trader", "free", "premium", "standard", "vip"}

CandidatePool ==
    [tier : TierLabels, priority_score : {1, 50, 100},
     category_match : BOOLEAN]

\* UserTier[tier_name.upper()].value, FREE on KeyError
tier_value(tier_name) ==
    IF tier_name = "premium" THEN UserTier.PREMIUM
    ELSE IF tier_name = "standard" THEN UserTier.STANDARD
    ELSE UserTier.FREE

\* the sort key (tier_value, priority, category_bonus) of a candidate
ScoreKey(c) ==
    <<tier_value(c.tier), c.priority_score,
      IF c.category_match THEN 1 ELSE 0>>

\* tuple comparison k1 > k2
KeyGreater(k1, k2) ==
    \/ k1[1] > k2[1]
    \/ k1[1] = k2[1] /\ k1[2] > k2[2]
    \/ k1[1] = k2[1] /\ k1[2] = k2[2] /\ k1[3] > k2[3]

\* scored.sort(key=..., reverse=True): descending and stable; `order` holds
\* positions of `cands`
RECURSIVE InsertByKey(_, _, _)
InsertByKey(order, i, cands) ==
    IF order = <<>> THEN <<i>>
    ELSE IF KeyGreater(ScoreKey(cands[i]), ScoreKey(cands[Head(order)]))
         THEN <<i>> \o order
         ELSE <<Head(order)>> \o InsertByKey(Tail(order), i, cands)

RECURSIVE SortByKey(_, _)
SortByKey(n, cands) ==
    IF n = 0 THEN <<>>
    ELSE InsertByKey(SortByKey(n - 1, cands), n, cands)

\* the positions of the candidates in the order score_candidates returns
score_candidates(cands) == SortByKey(Len(cands), cands)

ScoreIdle == sc_pc = "idle" /\ sc_candidates = <<>> /\ sc_result = <<>>

ScoreInit0 ==
    /\ sc_pc = "called"
    /\ sc_candidates \in UNION {[1..n -> CandidatePool] : n \in 1..MaxCandidates}
    /\ sc_result = <<>>

ScoreCandidates ==
    /\ sc_pc = "called"
    /\ sc_result' = score_candidates(sc_candidates)
    /\ sc_pc' = "done"
    /\ UNCHANGED sc_candidates
    /\ UNCHANGED <<baseVars, scOthers>>

(***************************************************************************)
(* calculate_net_profit (src/engine/profit.py) applied to inputs drawn     *)
(* from bounded sets                                                       *)
(***************************************************************************)

MaxPriceSteps == 10

\* sell prices from 0.00 to beyond the price at which 10.75 % reaches 75.00
SellPrices == {n * 10000 : n \in 0..MaxPriceSteps} \cup {1, 2000, 69767}

\* the grades map_condition maps (PO raises)
MappableGrades == {g \in CardmarketGrade : ~map_condition_raises(g)}

ProfitIdle ==
    /\ pf_pc = "idle" /\ pf_cm_price_eur = 0 /\ pf_tcg_price_usd = 0
    /\ pf_condition = "NM" /\ pf_result = calculate_net_profit(0, 0, EUR_USD_RATE, "NM")

ProfitInit0 ==
    /\ pf_pc = "called"
    /\ pf_cm_price_eur \in {4000, 10000}
    /\ pf_tcg_price_usd \in SellPrices
    /\ pf_condition \in MappableGrades
    /\ pf_result = calculate_net_profit(0, 0, EUR_USD_RATE, "NM")

CalculateNetProfit ==
    /\ pf_pc = "called"
    /\ pf_result' = calculate_net_profit(pf_cm_price_eur, pf_tcg_price_usd,
                                         EUR_USD_RATE, pf_condition)
    /\ pf_pc' = "done"
    /\ UNCHANGED <<pf_cm_price_eur, pf_tcg_price_usd, pf_condition>>
    /\ UNCHANGED <<baseVars, pfOthers>>

(***************************************************************************)
(* check_rotation_risk (src/engine/rotation.py) applied to reference dates *)
(* on both sides of the rotation date                                      *)
(***************************************************************************)

MaxDaysAhead == 200
MaxDaysPast == 5

\* (rotation_date - reference_date).days for the reference dates tried
DaysUntilRotation == (0 - MaxDaysPast)..MaxDaysAhead

\* the marks of ROTATION_CALENDAR: G rotates on a date, H has no date
CalendarMarks == {"G", "H"}

RotationIdle ==
    /\ rr_pc = "idle" /\ rr_mark = "H" /\ rr_days = 0 /\ rr_level = "SAFE"

RotationInit0 ==
    /\ rr_pc = "called"
    /\ rr_mark \in CalendarMarks
    /\ rr_days \in DaysUntilRotation
    /\ rr_level = "SAFE"

CheckRotationRisk ==
    /\ rr_pc = "called"
    /\ rr_level' = check_rotation_risk(rr_mark, "Standard", rr_days)
    /\ rr_pc' = "done"
    /\ UNCHANGED <<rr_mark, rr_days>>
    /\ UNCHANGED <<baseVars, rrOthers>>

(***************************************************************************)
(* convert_eur_to_usd followed by convert_usd_to_eur (src/utils/forex.py)  *)
(* on one amount, with the same rate and buffer                            *)
(***************************************************************************)

MaxAmountCents == 60

\* spot rates in hundredths, below and above parity
SpotRates == {50, 96, 98, 100, 108, 125}

\* buffers in percent: none, and DEFAULT_FOREX_BUFFER
ForexBuffers == {0, DEFAULT_FOREX_BUFFER}

convert_usd_to_eur_unbuffered(amount_usd, rate, buffer) ==
    RoundHalfUp(amount_usd * 100, rate)

\* amount_usd / (rate * (1 + buffer)), quantized to cents ROUND_HALF_UP
convert_usd_to_eur(amount_usd, rate, buffer) ==
    RoundHalfUp(amount_usd * 10000, rate * (100 + buffer))

ForexIdle ==
    /\ fx_pc = "idle" /\ fx_amount_eur = 0 /\ fx_rate = EUR_USD_RATE
    /\ fx_buffer = DEFAULT_FOREX_BUFFER /\ fx_usd = 0 /\ fx_back = 0

ForexInit0 ==
    /\ fx_pc = "eur"
    /\ fx_amount_eur \in 0..MaxAmountCents
    /\ fx_rate \in SpotRates
    /\ fx_buffer \in ForexBuffers
    /\ fx_usd = 0
    /\ fx_back = 0

ConvertEurToUsd ==
    /\ fx_pc = "eur"
    /\ fx_usd' = convert_eur_to_usd(fx_amount_eur, fx_rate, fx_buffer)
    /\ fx_pc' = "usd"
    /\ UNCHANGED <<fx_amount_eur, fx_rate, fx_buffer, fx_back>>
    /\ UNCHANGED <<baseVars, fxOthers>>

ConvertUsdToEur ==
    /\ fx_pc = "usd"
    /\ fx_back' = convert_usd_to_eur(fx_usd, fx_rate, fx_buffer)
    /\ fx_pc' = "back"
    /\ UNCHANGED <<fx_amount_eur, fx_rate, fx_buffer, fx_usd>>
    /\ UNCHANGED <<baseVars, fxOthers>>

(***************************************************************************)
(* The forex rate of a scan: get_current_forex_rate (src/utils/forex.py)   *)
(* per candidate, then the cost of goods of calculate_net_profit           *)
(* (src/engine/profit.py).  Rates are in millionths, as the live rate is   *)
(* quantized to six decimals.                                              *)
(***************************************************************************)

MaxRateCalls == 2
MaxCogsSteps == 3

RateUnit == 1000000

\* conversion_rates["USD"] as the API may report it
LiveSpotRates == {r * (RateUnit \div 100) : r \in SpotRates}

\* settings.EUR_USD_RATE in millionths
StaticRate == EUR_USD_RATE * (RateUnit \div 100)

\* cm_price_eur of the candidates, cents
BuyPrices == {n * 400 : n \in 0..MaxCogsSteps} \cup {1, 24}

\* raw_rate * Decimal("0.98"), quantized to six decimals ROUND_HALF_UP
live_buffered_rate(raw_rate) == RoundHalfUp(raw_rate * 98, 100)

\* convert_eur_to_usd with the rate in millionths:
\* amount_eur * rate * (1 + buffer) quantized to cents ROUND_HALF_UP, the
\* product taken in two parts so that no intermediate value passes 2^31
cogs_usd_of(amount_eur, rate, buffer) ==
    LET product == amount_eur * rate
        whole == (product \div RateUnit) * (100 + buffer)
        part == (product % RateUnit) * (100 + buffer)
    IN  (whole \div 100)
            + ((whole % 100) * RateUnit + part + 50 * RateUnit)
                \div (100 * RateUnit)

CogsIdle ==
    /\ cg_pc = "idle" /\ cg_key = FALSE /\ cg_calls = 0
    /\ cg_cache_rate = 0 /\ cg_cache_spot = 0
    /\ cg_rate = StaticRate /\ cg_spot = StaticRate /\ cg_source = "static"
    /\ cg_amount = 0 /\ cg_cogs = 0

CogsInit0 ==
    /\ cg_pc = "rate"
    /\ cg_key \in BOOLEAN
    /\ cg_calls = 0
    /\ cg_cache_rate = 0 /\ cg_cache_spot = 0
    /\ cg_rate = StaticRate /\ cg_spot = StaticRate /\ cg_source = "static"
    /\ cg_amount \in BuyPrices
    /\ cg_cogs = 0

\* no API key: the static rate
RateNoKey ==
    /\ cg_pc = "rate" /\ ~cg_key
    /\ cg_rate' = StaticRate /\ cg_spot' = StaticRate
    /\ cg_source' = "static"
    /\ cg_pc' = "cogs"
    /\ UNCHANGED <<cg_key, cg_calls, cg_cache_rate, cg_cache_spot, cg_amount, cg_cogs>>
    /\ UNCHANGED <<baseVars, cgOthers>>

\* a cached rate younger than FOREX_CACHE_TTL_SECONDS
RateCacheHit ==
    /\ cg_pc = "rate" /\ cg_key /\ cg_cache_rate # 0
    /\ cg_rate' = cg_cache_rate /\ cg_spot' = cg_cache_spot
    /\ cg_source' = "cache"
    /\ cg_pc' = "cogs"
    /\ UNCHANGED <<cg_key, cg_calls, cg_cache_rate, cg_cache_spot, cg_amount, cg_cogs>>
    /\ UNCHANGED <<baseVars, cgOthers>>

\* empty or stale cache, the API answers
RateLive ==
    /\ cg_pc = "rate" /\ cg_key
    /\ \E raw_rate \in LiveSpotRates :
        /\ cg_rate' = live_buffered_rate(raw_rate)
        /\ cg_cache_rate' = live_buffered_rate(raw_rate)
        /\ cg_spot' = raw_rate
        /\ cg_cache_spot' = raw_rate
    /\ cg_source' = "live"
    /\ cg_pc' = "cogs"
    /\ UNCHANGED <<cg_key, cg_calls, cg_amount, cg_cogs>>
    /\ UNCHANGED <<baseVars, cgOthers>>

\* empty or stale cache, the API call fails
RateFallback ==
    /\ cg_pc = "rate" /\ cg_key
    /\ cg_rate' = StaticRate /\ cg_spot' = StaticRate
    /\ cg_source' = "fallback"
    /\ cg_pc' = "cogs"
    /\ UNCHANGED <<cg_key, cg_calls, cg_cache_rate, cg_cache_spot, cg_amount, cg_cogs>>
    /\ UNCHANGED <<baseVars, cgOthers>>

\* cogs_usd of the candidate; the scan goes on to the next candidate
CostOfGoods ==
    /\ cg_pc = "cogs"
    /\ cg_cogs' = cogs_usd_of(cg_amount, cg_rate, DEFAULT_FOREX_BUFFER)
    /\ cg_calls' = cg_calls + 1
    /\ cg_pc' = IF cg_calls + 1 < MaxRateCalls THEN "next" ELSE "done"
    /\ UNCHANGED <<cg_key, cg_cache_rate, cg_cache_spot, cg_rate, cg_spot, cg_source, cg_amount>>
    /\ UNCHANGED <<baseVars, cgOthers>>

NextCandidate ==
    /\ cg_pc = "next"
    /\ cg_amount' \in BuyPrices
    /\ cg_pc' = "rate"
    /\ UNCHANGED <<cg_key, cg_calls, cg_cache_rate, cg_cache_spot, cg_rate,
                   cg_spot, cg_source, cg_cogs>>
    /\ UNCHANGED <<baseVars, cgOthers>>

(***************************************************************************)
(* Concurrent scrape_card calls on one ScraperRunner                       *)
(* (src/scraper/runner.py) and its AntiDetect (src/scraper/anti_detect.py).*)
(* A call gives up control at every await between can_scrape and           *)
(* record_page, so the steps of different calls interleave.                *)
(***************************************************************************)

MaxScrapeCalls == 3

\* settings.SCRAPE_MAX_PAGES_PER_HOUR, scaled down
SCRAPE_MAX_PAGES_PER_HOUR == 2

ScrapeCalls == 1..MaxScrapeCalls

\* _reset_hour_if_needed: _pages_this_hour after the check of the elapsed time
pages_after_reset == IF sr_hour_elapsed THEN 0 ELSE sr_pages_this_hour

ScrapeIdle ==
    /\ sr_pc = [c \in ScrapeCalls |-> "idle"]
    /\ sr_pages_this_hour = 0
    /\ sr_hour_elapsed = FALSE

\* the runner has recorded any number of pages up to the cap this hour
ScrapeInit0 ==
    /\ sr_pc = [c \in ScrapeCalls |-> "called"]
    /\ sr_pages_this_hour \in 0..SCRAPE_MAX_PAGES_PER_HOUR
    /\ sr_hour_elapsed = FALSE

\* 3600 seconds or more have passed since _hour_start
HourPasses ==
    /\ ~sr_hour_elapsed
    /\ \E c \in ScrapeCalls : sr_pc[c] \in {"called", "scraping"}
    /\ sr_hour_elapsed' = TRUE
    /\ UNCHANGED <<sr_pc, sr_pages_this_hour>>
    /\ UNCHANGED <<baseVars, srOthers>>

\* can_scrape is true: the call goes on to random_delay and the scrape methods
CanScrape(c) ==
    /\ sr_pc[c] = "called"
    /\ pages_after_reset < SCRAPE_MAX_PAGES_PER_HOUR
    /\ sr_pages_this_hour' = pages_after_reset
    /\ sr_hour_elapsed' = FALSE
    /\ sr_pc' = [sr_pc EXCEPT ![c] = "scraping"]
    /\ UNCHANGED <<baseVars, srOthers>>

\* can_scrape is false: the call returns None
RateLimited(c) ==
    /\ sr_pc[c] = "called"
    /\ ~(pages_after_reset < SCRAPE_MAX_PAGES_PER_HOUR)
    /\ sr_pages_this_hour' = pages_after_reset
    /\ sr_hour_elapsed' = FALSE
    /\ sr_pc' = [sr_pc EXCEPT ![c] = "limited"]
    /\ UNCHANGED <<baseVars, srOthers>>

\* the scrape methods have returned: record_page
RecordPage(c) ==
    /\ sr_pc[c] = "scraping"
    /\ sr_pages_this_hour' = pages_after_reset + 1
    /\ sr_hour_elapsed' = FALSE
    /\ sr_pc' = [sr_pc EXCEPT ![c] = "returned"]
    /\ UNCHANGED <<baseVars, srOthers>>

(***************************************************************************)
(* PokemonTCGClient.fetch_set_cards (src/pipeline/pokemontcg.py): the      *)
(* pagination loop.  The metadata source chooses every response; the page  *)
(* number is counted up to MaxPage and stays there.                        *)
(***************************************************************************)

MaxPage == 3
MaxPageCards == 2
MaxTotalCount == 3

FetchIdle ==
    /\ fs_pc = "idle" /\ fs_page = 1 /\ fs_all_cards = 0
    /\ fs_count = 0 /\ fs_totalCount = 0

FetchInit0 ==
    /\ fs_pc = "request" /\ fs_page = 1 /\ fs_all_cards = 0
    /\ fs_count = 0 /\ fs_totalCount = 0

\* _request returns a page: any number of cards, any totalCount
PageResponse ==
    /\ fs_pc = "request"
    /\ fs_count' \in 0..MaxPageCards
    /\ fs_totalCount' \in 0..MaxTotalCount
    /\ fs_pc' = "response"
    /\ UNCHANGED <<fs_page, fs_all_cards>>
    /\ UNCHANGED <<baseVars, fsOthers>>

\* _request raises (retries exhausted, or a client error)
PageRequestRaises ==
    /\ fs_pc = "request"
    /\ fs_pc' = "raised"
    /\ UNCHANGED <<fs_page, fs_all_cards, fs_count, fs_totalCount>>
    /\ UNCHANGED <<baseVars, fsOthers>>

\* all_cards.extend(response.data), then the test that ends the loop
ExtendAndTest ==
    /\ fs_pc = "response"
    /\ fs_all_cards' = fs_all_cards + fs_count
    /\ IF fs_all_cards + fs_count >= fs_totalCount
       THEN fs_pc' = "returned" /\ fs_page' = fs_page
       ELSE fs_pc' = "request" /\ fs_page' = Min(fs_page + 1, MaxPage)
    /\ UNCHANGED <<fs_count, fs_totalCount>>
    /\ UNCHANGED <<baseVars, fsOthers>>

\* every other subsystem at rest
BaseIdle == SchedIdle /\ CascIdle /\ ScanIdle /\ IoIdle /\ ReqIdle
ExtIdle ==
    /\ NtfIdle
    /\ ScoreIdle
    /\ ProfitIdle
    /\ RotationIdle
    /\ ForexIdle
    /\ CogsIdle
    /\ ScrapeIdle
    /\ FetchIdle
ntfOthersIdle == BaseIdle /\ ScoreIdle /\ ProfitIdle /\ RotationIdle /\ ForexIdle /\ CogsIdle /\ ScrapeIdle /\ FetchIdle
scOthersIdle == BaseIdle /\ NtfIdle /\ ProfitIdle /\ RotationIdle /\ ForexIdle /\ CogsIdle /\ ScrapeIdle /\ FetchIdle
pfOthersIdle == BaseIdle /\ NtfIdle /\ ScoreIdle /\ RotationIdle /\ ForexIdle /\ CogsIdle /\ ScrapeIdle /\ FetchIdle
rrOthersIdle == BaseIdle /\ NtfIdle /\ ScoreIdle /\ ProfitIdle /\ ForexIdle /\ CogsIdle /\ ScrapeIdle /\ FetchIdle
fxOthersIdle == BaseIdle /\ NtfIdle /\ ScoreIdle /\ ProfitIdle /\ RotationIdle /\ CogsIdle /\ ScrapeIdle /\ FetchIdle
cgOthersIdle == BaseIdle /\ NtfIdle /\ ScoreIdle /\ ProfitIdle /\ RotationIdle /\ ForexIdle /\ ScrapeIdle /\ FetchIdle
srOthersIdle == BaseIdle /\ NtfIdle /\ ScoreIdle /\ ProfitIdle /\ RotationIdle /\ ForexIdle /\ CogsIdle /\ FetchIdle
fsOthersIdle == BaseIdle /\ NtfIdle /\ ScoreIdle /\ ProfitIdle /\ RotationIdle /\ ForexIdle /\ CogsIdle /\ ScrapeIdle

(***************************************************************************)
(* Specifications                                                          *)
(***************************************************************************)

Init == SchedInit /\ CascIdle /\ ScanIdle /\ IoIdle /\ ReqIdle /\ ExtIdle

Next ==
    \/ LoopTop
    \/ CheckJusttcg
    \/ poll_justtcg
    \/ CheckPokemontcg
    \/ poll_pokemontcg
    \/ CheckPoketrace
    \/ poll_poketrace
    \/ CheckEbay
    \/ poll_ebay
    \/ CheckScan
    \/ scan_signals
    \/ Sleep
    \/ ErrorSleep
    \/ BoostCard
    \/ shutdown

Spec == Init /\ [][Next]_vars

FairSpec == Init /\ [][Next]_vars /\ WF_vars(RunStep)

CascadeInit ==
    CascadeInit0 /\ SchedIdle /\ ScanIdle /\ IoIdle /\ ReqIdle /\ ExtIdle

CascadeNext == ShouldCascade

CascadeSpec == CascadeInit /\ [][CascadeNext]_vars

ScanInit ==
    ScanInit0 /\ SchedIdle /\ CascIdle /\ IoIdle /\ ReqIdle /\ ExtIdle

ScanNext ==
    \/ RunStage
    \/ FinishScan
    \/ NotifyUser
    \/ NotifyCompleted

ScanSpec == ScanInit /\ [][ScanNext]_vars

IoInit ==
    IoInit0 /\ SchedIdle /\ CascIdle /\ ScanIdle /\ ReqIdle /\ ExtIdle

IoNext ==
    \/ IoSelect
    \/ IoRequest
    \/ IoNoRequest
    \/ IoResponse
    \/ IoExecute
    \/ IoCommit
    \/ IoClose

IoSpec == IoInit /\ [][IoNext]_vars

RequestInit ==
    ReqInit0 /\ SchedIdle /\ CascIdle /\ ScanIdle /\ IoIdle /\ ExtIdle

RequestNext ==
    \/ SendAttempt
    \/ RaiseAfterLoop

RequestSpec == RequestInit /\ [][RequestNext]_vars

NotifierInit == NtfInit0 /\ ntfOthersIdle

NotifierNext ==
    \/ SendOne
    \/ SendBatch
    \/ SendDigest

NotifierSpec == NotifierInit /\ [][NotifierNext]_vars

ScoreInit == ScoreInit0 /\ scOthersIdle

ScoreNext == ScoreCandidates

ScoreSpec == ScoreInit /\ [][ScoreNext]_vars

ProfitInit == ProfitInit0 /\ pfOthersIdle

ProfitNext == CalculateNetProfit

ProfitSpec == ProfitInit /\ [][ProfitNext]_vars

RotationInit == RotationInit0 /\ rrOthersIdle

RotationNext == CheckRotationRisk

RotationSpec == RotationInit /\ [][RotationNext]_vars

ForexInit == ForexInit0 /\ fxOthersIdle

ForexNext == ConvertEurToUsd \/ ConvertUsdToEur

ForexSpec == ForexInit /\ [][ForexNext]_vars

CogsInit == CogsInit0 /\ cgOthersIdle

CogsNext ==
    \/ RateNoKey
    \/ RateCacheHit
    \/ RateLive
    \/ RateFallback
    \/ CostOfGoods
    \/ NextCandidate

CogsSpec == CogsInit /\ [][CogsNext]_vars

ScrapeInit == ScrapeInit0 /\ srOthersIdle

ScrapeNext ==
    \/ HourPasses
    \/ \E c \in ScrapeCalls : CanScrape(c)
    \/ \E c \in ScrapeCalls : RateLimited(c)
    \/ \E c \in ScrapeCalls : RecordPage(c)

ScrapeSpec == ScrapeInit /\ [][ScrapeNext]_vars

FetchInit == FetchInit0 /\ fsOthersIdle

FetchNext ==
    \/ PageResponse
    \/ PageRequestRaises
    \/ ExtendAndTest

FetchSpec == FetchInit /\ [][FetchNext]_vars

\* every request comes back (with a page or an exception) and the coroutine
\* is resumed after each await
FetchFairSpec ==
    /\ FetchSpec
    /\ WF_vars(PageResponse \/ PageRequestRaises)
    /\ WF_vars(ExtendAndTest)

(***************************************************************************)
(* Properties                                                              *)
(***************************************************************************)
LastRun(j) ==
    CASE j = "justtcg" -> justtcg_last_poll
      [] j = "pokemontcg" -> pokemontcg_last_poll
      [] j = "poketrace" -> poketrace_last_poll
      [] j = "ebay" -> ebay_last_poll
      [] OTHER -> signal_last_scan

\* C1: should_cascade returns true exactly when the signal was not acted on,
\* its cascade count is below 5 and the reference time is at or after
\* expires_at + 10 seconds.
ShouldCascadeIff ==
    casc_pc = "done" =>
        (casc_result <=> (/\ ~acted_on
                          /\ cascade_count < 5
                          /\ reference_time >= expires_at + 10))

\* C1 witness: the call made at exactly expires_at + 10 s returned true.
CascadeAtExactCooldown ==
    /\ casc_pc = "done"
    /\ casc_result
    /\ reference_time = expires_at + 10
    /\ cascade_count = 4

\* C2: within one run no signal is held by two distinct subscribers.
SingleHolderPerSignal ==
    \A u, v \in UserIds : u # v => delivered[u] \cap delivered[v] = {}

\* C3: when a job's failure ends the tick, no job later in the tick was due
\* (no due sibling job is skipped because of the failure).
FailureSkipsNoDueJob ==
    (pc = "error_sleep" /\ last.op = "job") =>
        \A j \in Jobs : JobOrder(j) > JobOrder(last.job) => ~Due(j)

\* C4: a job that was started and failed leaves its last-run timestamp at
\* the time of the attempt.
FailedJobAdvancesLastRun ==
    (last.op = "job" /\ last.outcome # "ok") => LastRun(last.job) = now

EntrypointScanStartsWhenCadenceElapsed ==
    (/\ entrypoint = "main"
     /\ last.op = "check" /\ last.job = "scan"
     /\ now - signal_last_scan >= Units(SIGNAL_SCAN_INTERVAL_MINUTES))
        => pc = "scan_signals"

\* C7: at the buy-side due-check, with an unexpired override the source is
\* due exactly when the short interval has elapsed since its last poll;
\* with none it is due exactly when the base cadence has elapsed.
JusttcgDueFollowsOverride ==
    [][(pc = "check_justtcg" /\ pc' # "check_justtcg") =>
          LET active == \E c \in DOMAIN social_spikes : social_spikes[c] > now
              elapsed == now - justtcg_last_poll
          IN /\ active =>
                  (pc' = "poll_justtcg" <=>
                      elapsed >= Units(SOCIAL_SPIKE_POLL_INTERVAL_MINUTES))
             /\ ~active =>
                  (pc' = "poll_justtcg" <=>
                      elapsed >= Units(JUSTTCG_POLL_INTERVAL_HOURS * 60))]_vars

\* C7 witness: a due-check with an unexpired override found the source due
\* before its base cadence had elapsed.
DueEarlyUnderOverride ==
    /\ last.op = "check_justtcg"
    /\ last.active
    /\ pc = "poll_justtcg"
    /\ now - justtcg_last_poll < Units(JUSTTCG_POLL_INTERVAL_HOURS * 60)

BoostResetsRevertTime ==
    [][last'.op = "increase_poll_cadence" =>
          /\ DOMAIN social_spikes' = DOMAIN social_spikes \cup {last'.card}
          /\ social_spikes'[last'.card] = now' + 2 * SOCIAL_SPIKE_REVERT_HOURS
          /\ \A c \in DOMAIN social_spikes \ {last'.card} :
                 social_spikes'[c] = social_spikes[c]]_vars

\* C9 witness: a second BoostCard for a card, made at a later time, replaced
\* the revert time the first call had set.
SecondBoostReplaced ==
    /\ last.op = "increase_poll_cadence"
    /\ last.prev # NoTime
    /\ last.prev # social_spikes[last.card]

\* C10: for every row the stages evaluated are 1, 2, 3, ... in order, a
\* rejected row has no stage evaluated after the rejecting one, and the
\* signals built in the loop are exactly the rows that passed all ten
\* stages (the cap applied after the loop only removes signals).
StagesInOrderStopAtRejection ==
    /\ \A i \in 1..Len(prices) :
          /\ \A n \in 1..Len(stages_run[i]) : stages_run[i][n] = n
          /\ rejected_at[i] # 0 => Len(stages_run[i]) = rejected_at[i]
    /\ LET passed == {i \in 1..Len(prices) :
                          Len(stages_run[i]) = 10 /\ rejected_at[i] = 0}
       IN /\ Len(signals) <= Cardinality(passed)
          /\ scan_pc = "stages" => Len(signals) = Cardinality(passed)
          /\ \A n \in 1..Len(signals) :
                \E i \in passed : signals[n].card_id = prices[i].card_id

\* C10 witness: a row was rejected at stage 6 after stages 1-6 and the scan
\* went on to build a signal from the next row.
RejectedMidPipeline ==
    /\ Len(prices) = 2
    /\ rejected_at[1] = 6
    /\ stages_run[1] = <<1, 2, 3, 4, 5, 6>>
    /\ Len(signals) = 1

\* the rows for which all ten stages ran without a rejection
AcceptedRows ==
    {i \in 1..Len(prices) : Len(stages_run[i]) = 10 /\ rejected_at[i] = 0}

\* the signal the loop builds from row i
SignalOf(i) ==
    [card_id |-> prices[i].card_id,
     net_profit |-> profit_of(prices[i]).net_profit]

ProfitStageUsesProfileThreshold ==
    Len(user_profiles) = 1 =>
        \A i \in 1..Len(prices) :
            Len(stages_run[i]) >= 4 =>
                (rejected_at[i] = 4 <=>
                    profit_of(prices[i]).net_profit
                        < user_profiles[1].min_profit_threshold)

\* C13: a candidate whose card has no metadata row is rejected at stage 1.
MissingMetadataRejectedAtVariant ==
    \A i \in 1..Len(prices) :
        (Len(stages_run[i]) >= 1 /\ ~prices[i].has_metadata)
            => rejected_at[i] = 1

\* C14: a candidate with SDS = 1, a price under 25.00 USD and a net profit
\* of zero or less, once the scan is done with it, was rejected by stage 10.
UnprofitableCheapCardRejectedByBundle ==
    \A i \in 1..Len(prices) :
        (/\ (i < idx \/ scan_pc # "stages")
         /\ Len(stages_run[i]) >= 4
         /\ bundle_suppress(SDS_SINGLE, prices[i].price_usd,
                            profit_of(prices[i]).net_profit))
            => rejected_at[i] = 10

\* C15: the list a scan returns is in non-increasing order of net_profit,
\* holds min(accepted, cap) signals, each built from an accepted row, and
\* every accepted signal more profitable than a returned one is returned.
ScanResultSortedAndCapped ==
    scan_pc \in {"notify", "done"} =>
        LET Kept(r) == Cardinality({n \in 1..Len(signals) : signals[n] = r})
            Built(r) == Cardinality({i \in AcceptedRows : SignalOf(i) = r})
        IN /\ \A n \in 1..(Len(signals) - 1) :
                 signals[n].net_profit >= signals[n + 1].net_profit
           /\ Len(signals) = Min(Cardinality(AcceptedRows), max_signals)
           /\ \A n \in 1..Len(signals) :
                 Kept(signals[n]) <= Built(signals[n])
           /\ \A i \in AcceptedRows, n \in 1..Len(signals) :
                 SignalOf(i).net_profit > signals[n].net_profit
                     => Kept(SignalOf(i)) = Built(SignalOf(i))

\* C15 witness: two rows were accepted, the more profitable one second, the
\* cap is one, and the scan returned the more profitable one.
CapKeptTheMostProfitable ==
    /\ scan_pc = "notify"
    /\ max_signals = 1
    /\ AcceptedRows = {1, 2}
    /\ SignalOf(1).net_profit < SignalOf(2).net_profit
    /\ signals = <<SignalOf(2)>>

UserFailureDoesNotStopLoop ==
    /\ scan_pc = "done" => Len(notify_log) = Len(user_profiles)
    /\ \A n \in 1..Len(notify_log) : notify_log[n].user = user_profiles[n].id

\* C17 witness: delivery raised for the first user and the second user was
\* still served.
SecondUserServedAfterFailure ==
    /\ scan_pc = "done"
    /\ Len(notify_log) = 2
    /\ notify_log[1].outcome = "send_raised"
    /\ notify_log[2].outcome = "returned"
    /\ delivered[notify_log[2].user] # {}

\* C18: for every (card_id, source), the committed price_history rows are
\* as many as the committed upserts of the market_prices row: every upsert
\* by a store operation comes with one history row in its transaction.
EveryUpsertHasHistoryRow ==
    \A k \in IoKeys : price_history[k] = market_upserts[k]

\* C19: no upstream request is awaiting its response while the job's
\* session has a transaction open.
NoTransactionAcrossHttpCall ==
    ~(tx_open /\ http_in_flight)

\* C20: a response with a 4xx status other than 429 is the last attempt of
\* the request: the request raised at once, without a sleep and without a
\* further attempt.
ClientErrorNeverRetried ==
    \A n \in 1..Len(responses) :
        LET o == responses[n]
        IN (o.kind = "status" /\ o.code >= 400 /\ o.code <= 499
                /\ o.code # 429)
              => /\ n = Len(responses)
                 /\ req_pc = "raised"
                 /\ attempt = n - 1
                 /\ Len(slept) = n - 1

\* a 404 answered the first attempt and the request raised
ClientErrorEndedRequest ==
    /\ req_pc = "raised"
    /\ responses = <<[kind |-> "status", code |-> 404]>>
    /\ attempt = 0
    /\ slept = <<>>

\* True of the outcomes after which _request sleeps and tries again
IsTransient(o) ==
    \/ o.kind = "error"
    \/ o.code = 429
    \/ o.code >= 500

\* C21: a request makes at most max_retries + 1 attempts, sleeps
\* base_backoff * 2^attempt after attempt number `attempt` (counted from 0)
\* before the next one, and when all max_retries + 1 attempts ended in a
\* network error, a 5xx or a 429 the only step left is the failure.
BoundedRetriesWithBackoff ==
    /\ Len(responses) <= max_retries + 1
    /\ attempt <= max_retries + 1
    /\ Len(slept) = attempt
    /\ \A n \in 1..Len(slept) :
          /\ slept[n] = base_backoff * Pow2(n - 1)
          /\ IsTransient(responses[n])
    /\ req_pc = "attempt" => Len(responses) = attempt
    /\ attempt = max_retries + 1 =>
          /\ req_pc \in {"attempt", "exhausted"}
          /\ ~ENABLED SendAttempt
          /\ req_pc = "attempt" => ENABLED RaiseAfterLoop
    /\ req_pc = "exhausted" =>
          /\ Len(responses) = max_retries + 1
          /\ \A n \in 1..Len(responses) : IsTransient(responses[n])

\* four attempts, each of a different transient kind, then the failure
RetriesExhausted ==
    /\ req_pc = "exhausted"
    /\ responses = <<[kind |-> "error", code |-> 0],
                     [kind |-> "status", code |-> 500],
                     [kind |-> "status", code |-> 429],
                     [kind |-> "status", code |-> 503]>>
    /\ slept = <<1, 2, 4, 8>>

\* C22: no operation of a notifier ends by raising: send_signal,
\* send_batch_signals and send_daily_digest always return their value.
NotifierNeverRaises ==
    ntf_pc # "raised"

\* C23: in the returned order a candidate of a higher tier rank never comes
\* after one of a lower rank, with shop > pro > trader > free, premium
\* ranked as pro, standard as trader and any other label as free; within
\* one rank the higher priority score comes first, and within one score a
\* category match comes first.
ScoreOrdersByFourTierRank ==
    sc_pc = "done" =>
        LET rank(t) == CASE t = "shop" -> 4
                         [] t \in {"pro", "premium"} -> 3
                         [] t \in {"trader", "standard"} -> 2
                         [] OTHER -> 1
            key(i) == <<rank(sc_candidates[i].tier),
                        sc_candidates[i].priority_score,
                        IF sc_candidates[i].category_match THEN 1 ELSE 0>>
        IN /\ Len(sc_result) = Len(sc_candidates)
           /\ \A a, b \in 1..Len(sc_result) :
                 a < b => ~KeyGreater(key(sc_result[b]), key(sc_result[a]))

\* C24: in the breakdown tcg_fees is min(adjusted sell price x 0.1075,
\* 75.00) + 0.30 rounded half-up to cents, and revenue is the adjusted sell
\* price less tcg_fees.
TcgFeesCappedPlusFixedFee ==
    pf_pc = "done" =>
        LET adjusted == RoundHalfUp(pf_tcg_price_usd
                                      * price_multiplier(pf_condition), 100)
            fees == RoundHalfUp(Min(adjusted * 1075, 75000000) + 300000,
                                10000)
        IN /\ pf_result.tcg_fees = fees
           /\ pf_result.revenue = adjusted - fees

RoundTripIsIdentity ==
    fx_pc = "back" => fx_back = fx_amount_eur

\* C26 (amended): for every non-negative two-decimal amount and every spot
\* rate whose buffered value rate * (1 + buffer) is at least 1, EUR -> USD ->
\* EUR with the same rate and buffer returns the original amount.
RoundTripIsIdentityAtOrAboveParity ==
    (fx_pc = "back" /\ fx_rate * (100 + fx_buffer) >= 10000) =>
        fx_back = fx_amount_eur

RoundTripCompletedAboveParity ==
    /\ fx_pc = "back" /\ fx_rate = EUR_USD_RATE
    /\ fx_buffer = DEFAULT_FOREX_BUFFER
    /\ fx_amount_eur = MaxAmountCents - 10 /\ fx_usd > fx_amount_eur
    /\ fx_back = fx_amount_eur

\* C28: for every candidate of a scan, the USD cost of goods is never lower
\* than the EUR buy price converted at the unbuffered spot rate, whether the
\* rate came from a live fetch, from the cache or from the static fallback.
CogsNeverBelowSpotConversion ==
    cg_pc \in {"next", "done"} =>
        cg_cogs >= cogs_usd_of(cg_amount, cg_spot, 0)

\* C29: for any interleaving of concurrent scrape_card calls on one runner,
\* the number of pages recorded since the start of the current rate-limit
\* hour never exceeds SCRAPE_MAX_PAGES_PER_HOUR.
PagesThisHourWithinCap ==
    sr_pages_this_hour <= SCRAPE_MAX_PAGES_PER_HOUR

\* C30: fetch_set_cards terminates for every sequence of page responses,
\* including a page that returns no cards while the reported totalCount is
\* still greater than the number of cards fetched so far.
FetchSetCardsTerminates ==
    <>(fs_pc \in {"returned", "raised"})

\* C27: as long as no shutdown is requested and every started job returns, a
\* job whose due predicate is true (and stays true) is eventually started,
\* whatever failures occur in the other sources' jobs.
DueJobEventuallyStarted ==
    \A j \in Jobs :
        [](Due(j) /\ ~shutdown_event
              => <>(pc = JobPc(j) \/ shutdown_event \/ ~Due(j)))

====
